---- MODULE Spec2Model ----
(***************************************************************************)
(* Model of the parameter-block generator of iamf-tools                    *)
(* (iamf/cli/parameter_block_generator.{h,cc}): the per-id metadata map,   *)
(* the three typed metadata queues, the global timing module and the       *)
(* caller's output list, with one action per public method.                *)
(***************************************************************************)
EXTENDS Integers, Sequences, FiniteSets, TLC

VARIABLES
  override_computed_recon_gains_,  \* constructor argument, constant afterwards
  parameter_id_to_metadata_,       \* parameter_id -> PerIdParameterMetadata
  typed_proto_metadata_,           \* definition type -> queue of metadata records
  global_timing_module,            \* parameter_id -> next expected start
  output_parameter_blocks,         \* the caller's std::list<ParameterBlockWithData>
  status,                          \* status returned by the last call
  last_call,                       \* name of the last method called
  log,                             \* one entry per record visited by the last Generate*
  num_added,                       \* number of successful AddMetadata calls so far
  unit_calls,                      \* Generate* methods called since the last AddMetadata
  initialize_call,                 \* the arguments and status of the last Initialize
  rejected_ids,                    \* parameter ids whose claimed start was rejected
  frame_index_to_frame_,           \* FlacEncoder: frame index -> FlacFrame
  next_frame_index_,               \* FlacEncoder: index of the next frame stored
  finalized_audio_frames_,         \* EncoderBase: the frames finalized so far
  flac_library,                    \* libflac: the samples it has yet to write, per frame
  finalize_frames,                 \* position and locals of FinalizeFrames
  streaminfo_finished_,            \* FlacEncoder: STREAMINFO metadata was received
  finalize_and_flush,              \* position of FinalizeAndFlush
  encode_calls,                    \* the EncodeAudioFrame calls so far and their outcome
  write_calls,                     \* the write callbacks so far, in order
  find_demixed_channels_call,      \* arguments and result of FindDemixedChannels
  convert_recon_gains_call,        \* arguments and result of ConvertReconGainsAndFlags
  recon_gain_subblock_call,        \* arguments and reads of GenerateReconGainSubblock
  compute_recon_gains_call         \* arguments and result of ComputeReconGains

vars == <<override_computed_recon_gains_, parameter_id_to_metadata_,
          typed_proto_metadata_, global_timing_module, output_parameter_blocks,
          status, last_call, log, num_added, unit_calls, initialize_call,
          rejected_ids, frame_index_to_frame_, next_frame_index_,
          finalized_audio_frames_, flac_library, finalize_frames,
          streaminfo_finished_, finalize_and_flush, encode_calls,
          write_calls, find_demixed_channels_call, convert_recon_gains_call,
          recon_gain_subblock_call, compute_recon_gains_call>>

\* The state of the parameter-block generator, of the FLAC encoder and of the
\* helpers called on their own; status and last_call are shared.
generator_state ==
  <<override_computed_recon_gains_, parameter_id_to_metadata_,
    typed_proto_metadata_, global_timing_module, output_parameter_blocks, log,
    num_added, unit_calls, initialize_call, rejected_ids>>

flac_state ==
  <<frame_index_to_frame_, next_frame_index_, finalized_audio_frames_,
    flac_library, finalize_frames, streaminfo_finished_, finalize_and_flush,
    encode_calls, write_calls>>

helper_calls ==
  <<find_demixed_channels_call, convert_recon_gains_call,
    recon_gain_subblock_call, compute_recon_gains_call>>

----------------------------------------------------------------------------
(* Bounds of the model. *)

\* Successful AddMetadata calls in a run of Spec.
MaxAdds == 2
\* Successful AddMetadata calls in a run of SpecWide.
MaxAddsWide == 1
\* Largest start_timestamp a metadata record claims.
MaxStart == 2
\* Largest duration / constant_subblock_duration of a metadata record.
MaxDuration == 1
\* Largest num_subblocks and largest number of subblock records of a record.
MaxSubblocks == 3
\* Largest subblock_duration of a subblock record.
MaxSubblockDuration == 1
\* Largest length of the caller's output list.
MaxOutput == 3

\* The most records added in a run of SpecMixGain.
MaxAddsMixGain == 1

\* The most records added in a run of SpecReconGain.
MaxAddsReconGain == 1

\* The most records added in a run of SpecInitialize.
MaxAddsInitialize == 2

----------------------------------------------------------------------------
(* Status codes and definition types. *)

kOk == "OK"
kInvalidArgument == "InvalidArgument"
kUnknown == "Unknown"

kParameterDefinitionMixGain == "MixGain"
kParameterDefinitionDemixing == "Demixing"
kParameterDefinitionReconGain == "ReconGain"
kParameterDefinitionUnset == "Unset"
\* the first of the reserved types (an extension parameter definition)
kParameterDefinitionReservedStart == "ReservedStart"

ParameterDefinitionTypes ==
  {kParameterDefinitionMixGain, kParameterDefinitionDemixing,
   kParameterDefinitionReconGain}

Range(s) == {s[i] : i \in DOMAIN s}

\* The element of a one-element set: Only({F(x) : x \in {e}}) is F(e), with e
\* evaluated once.
Only(S) == CHOOSE v \in S : TRUE

RECURSIVE SumSeq(_)
SumSeq(s) == IF s = <<>> THEN 0 ELSE Head(s) + SumSeq(Tail(s))

RECURSIVE Pow2(_)
Pow2(n) == IF n = 0 THEN 1 ELSE 2 * Pow2(n - 1)

\* flag | (1 << bit_position)
BitIsSet(flag, bit_position) == (flag \div Pow2(bit_position)) % 2 = 1
OrBit(flag, bit_position) ==
  IF BitIsSet(flag, bit_position) THEN flag ELSE flag + Pow2(bit_position)

----------------------------------------------------------------------------
(* The tables handed to Initialize.                                        *)

\* A ParamDefinition of mode 1 carries no timing fields of its own.
ParamDefinitionMode1(type, audio_element_id) ==
  [type |-> type, param_definition_mode_ |-> 1, duration_ |-> 0,
   constant_subblock_duration_ |-> 0, num_subblocks_ |-> 0,
   subblock_durations_ |-> <<>>, audio_element_id_ |-> audio_element_id]

\* parameter_id -> ParamDefinition. Id 5 has no definition (a stray id).
ParamDefinitions ==
  (1 :> ParamDefinitionMode1(kParameterDefinitionMixGain, 0)) @@
  (2 :> [type |-> kParameterDefinitionMixGain, param_definition_mode_ |-> 0,
         duration_ |-> 2, constant_subblock_duration_ |-> 0,
         num_subblocks_ |-> 2, subblock_durations_ |-> <<1, 1>>,
         audio_element_id_ |-> 0]) @@
  (3 :> ParamDefinitionMode1(kParameterDefinitionDemixing, 0)) @@
  (4 :> ParamDefinitionMode1(kParameterDefinitionReconGain, 1))

ParameterIds == DOMAIN ParamDefinitions \cup {5}

\* audio_element_id -> AudioElementWithData: stereo, then 5.1.
AudioElements ==
  (1 :> [config_ |-> "ScalableChannelLayoutConfig",
         num_layers |-> 2,
         recon_gain_is_present_flag |-> <<0, 1>>,
         channel_numbers_for_layers |->
           <<[surround |-> 2, height |-> 0, lfe |-> 0],
             [surround |-> 5, height |-> 0, lfe |-> 1]>>])

DefaultParamDefinition ==
  [type |-> kParameterDefinitionUnset, param_definition_mode_ |-> 0,
   duration_ |-> 0, constant_subblock_duration_ |-> 0, num_subblocks_ |-> 0,
   subblock_durations_ |-> <<>>, audio_element_id_ |-> 0]

\* PerIdParameterMetadata()
DefaultPerIdParameterMetadata ==
  [param_definition |-> DefaultParamDefinition,
   param_definition_type |-> kParameterDefinitionUnset,
   audio_element_id |-> 0, num_layers |-> 0,
   recon_gain_is_present_flags |-> <<>>,
   channel_numbers_for_layers |-> <<>>]

----------------------------------------------------------------------------
(* Initialize and its helper.                                              *)

kBadVariantAccess == "bad_variant_access"

\* GetPerIdMetadata: fills per_id_metadata for target_parameter_id. The fields
\* written before an early return stay written.
GetPerIdMetadata(target_parameter_id, audio_elements, param_definitions, per_id_metadata) ==
  LET m0 == [per_id_metadata EXCEPT !.num_layers = 0] IN
  IF target_parameter_id \notin DOMAIN param_definitions
  THEN [status |-> kInvalidArgument, per_id_metadata |-> m0]
  ELSE
    LET param_definition == param_definitions[target_parameter_id]
        m1 == [m0 EXCEPT !.param_definition = param_definition]
    IN
    IF param_definition.type = kParameterDefinitionUnset
    THEN [status |-> kUnknown, per_id_metadata |-> m1]
    ELSE
      LET m2 == [m1 EXCEPT !.param_definition_type = param_definition.type] IN
      IF m2.param_definition_type # kParameterDefinitionReconGain
      THEN [status |-> kOk, per_id_metadata |-> m2]
      ELSE IF param_definition.audio_element_id_ \notin DOMAIN audio_elements
      THEN [status |-> kUnknown, per_id_metadata |-> m2]
      ELSE
        LET audio_element == audio_elements[param_definition.audio_element_id_]
            m3 == [m2 EXCEPT !.audio_element_id =
                               param_definition.audio_element_id_]
        IN
        IF audio_element.config_ # "ScalableChannelLayoutConfig"
        THEN [status |-> kBadVariantAccess, per_id_metadata |-> m3]
        ELSE
          [status |-> kOk,
           per_id_metadata |->
             [m3 EXCEPT
                !.num_layers = audio_element.num_layers,
                !.recon_gain_is_present_flags =
                   [l \in 1..audio_element.num_layers |->
                      audio_element.recon_gain_is_present_flag[l] = 1],
                !.channel_numbers_for_layers =
                   audio_element.channel_numbers_for_layers]]

\* The iteration orders of a flat_hash_map with the keys S.
IterationOrders(S) ==
  {o \in [1..Cardinality(S) -> S] : Range(o) = S}

\* The loop of Initialize over param_definitions, visited in `order`.
RECURSIVE InitializeLoop(_, _, _, _)
InitializeLoop(order, metadata_map, audio_elements, param_definitions) ==
  IF order = <<>> THEN [status |-> kOk, metadata_map |-> metadata_map]
  ELSE
    LET parameter_id == Head(order)
        inserted == parameter_id \notin DOMAIN metadata_map
        r == IF inserted
             THEN GetPerIdMetadata(parameter_id, audio_elements,
                                   param_definitions,
                                   DefaultPerIdParameterMetadata)
             ELSE [status |-> kOk,
                   per_id_metadata |-> metadata_map[parameter_id]]
        map1 == (parameter_id :> r.per_id_metadata) @@ metadata_map
        param_definition_type == r.per_id_metadata.param_definition_type
    IN
    IF r.status # kOk THEN [status |-> r.status, metadata_map |-> map1]
    ELSE IF param_definition_type \notin ParameterDefinitionTypes
    THEN [status |-> kInvalidArgument, metadata_map |-> map1]
    ELSE InitializeLoop(Tail(order), map1, audio_elements, param_definitions)

\* ParameterBlockGenerator::Initialize
Initialize(has_ia_sequence_header, audio_elements, param_definitions, order) ==
  /\ LET r == IF ~has_ia_sequence_header
              THEN [status |-> kInvalidArgument,
                    metadata_map |-> parameter_id_to_metadata_]
              ELSE InitializeLoop(order, parameter_id_to_metadata_,
                                  audio_elements, param_definitions)
     IN /\ parameter_id_to_metadata_' = r.metadata_map
        /\ status' = r.status
        /\ initialize_call' =
             [called |-> TRUE,
              has_ia_sequence_header |-> has_ia_sequence_header,
              audio_elements |-> audio_elements,
              param_definitions |-> param_definitions,
              status |-> r.status]
  /\ last_call' = "Initialize"
  /\ UNCHANGED <<override_computed_recon_gains_, typed_proto_metadata_,
                 global_timing_module, output_parameter_blocks, log,
                 num_added, unit_calls, rejected_ids, flac_state,
                 helper_calls>>

----------------------------------------------------------------------------
(* Subblock payloads.                                                      *)

\* Int32ToInt16 / Uint32ToUint8 of iamf/common/obu_util: a range check.
Int32ToInt16(v) ==
  IF v >= -32768 /\ v <= 32767
  THEN [status |-> kOk, value |-> v]
  ELSE [status |-> kInvalidArgument, value |-> 0]

Uint32ToUint8(v) ==
  IF v >= 0 /\ v <= 255
  THEN [status |-> kOk, value |-> v]
  ELSE [status |-> kInvalidArgument, value |-> 0]

NoParamData == [kind |-> "none"]

\* GenerateMixGainSubblock with the linear case checking only its start point.
GenerateMixGainSubblock_LinearStartOnly(metadata) ==
  LET start == Int32ToInt16(metadata.start_point_value)
      end == Int32ToInt16(metadata.end_point_value)
      control == Int32ToInt16(metadata.control_point_value)
      time == Uint32ToUint8(metadata.control_point_relative_time)
      Fail == [status |-> kInvalidArgument, param_data |-> NoParamData]
  IN
  CASE metadata.animation_type = "ANIMATE_STEP" ->
         IF start.status # kOk THEN Fail
         ELSE [status |-> kOk,
               param_data |-> [kind |-> "mix_gain",
                               animation_type |-> "kAnimateStep",
                               start_point_value |-> start.value]]
    [] metadata.animation_type = "ANIMATE_LINEAR" ->
         IF start.status # kOk THEN Fail
         ELSE [status |-> kOk,
               param_data |-> [kind |-> "mix_gain",
                               animation_type |-> "kAnimateLinear",
                               start_point_value |-> start.value,
                               end_point_value |-> end.value]]
    [] metadata.animation_type = "ANIMATE_BEZIER" ->
         IF \/ start.status # kOk \/ end.status # kOk
            \/ control.status # kOk \/ time.status # kOk
         THEN Fail
         ELSE [status |-> kOk,
               param_data |-> [kind |-> "mix_gain",
                               animation_type |-> "kAnimateBezier",
                               start_point_value |-> start.value,
                               end_point_value |-> end.value,
                               control_point_value |-> control.value,
                               control_point_relative_time |-> time.value]]
    [] OTHER -> Fail

\* GenerateMixGainSubblock
GenerateMixGainSubblock(metadata) ==
  LET start == Int32ToInt16(metadata.start_point_value)
      end == Int32ToInt16(metadata.end_point_value)
      control == Int32ToInt16(metadata.control_point_value)
      time == Uint32ToUint8(metadata.control_point_relative_time)
      Fail == [status |-> kInvalidArgument, param_data |-> NoParamData]
  IN
  CASE metadata.animation_type = "ANIMATE_STEP" ->
         IF start.status # kOk THEN Fail
         ELSE [status |-> kOk,
               param_data |-> [kind |-> "mix_gain",
                               animation_type |-> "kAnimateStep",
                               start_point_value |-> start.value]]
    [] metadata.animation_type = "ANIMATE_LINEAR" ->
         IF start.status # kOk \/ end.status # kOk THEN Fail
         ELSE [status |-> kOk,
               param_data |-> [kind |-> "mix_gain",
                               animation_type |-> "kAnimateLinear",
                               start_point_value |-> start.value,
                               end_point_value |-> end.value]]
    [] metadata.animation_type = "ANIMATE_BEZIER" ->
         IF \/ start.status # kOk \/ end.status # kOk
            \/ control.status # kOk \/ time.status # kOk
         THEN Fail
         ELSE [status |-> kOk,
               param_data |-> [kind |-> "mix_gain",
                               animation_type |-> "kAnimateBezier",
                               start_point_value |-> start.value,
                               end_point_value |-> end.value,
                               control_point_value |-> control.value,
                               control_point_relative_time |-> time.value]]
    [] OTHER -> Fail

\* CopyDemixingInfoParameterData of iamf/cli/cli_util: copies dmixp_mode.
CopyDemixingInfoParameterData(metadata) ==
  [status |-> kOk,
   param_data |-> [kind |-> "demixing", dmixp_mode |-> metadata.dmixp_mode]]

\* FindDemixedChannels with D_R2 pushed whenever the surround count passes 2.
FindDemixedChannels_AnyToTwo(accumulated_channels, layer_channels) ==
  LET surrounds == (accumulated_channels.surround + 1)..layer_channels.surround
      s2 == IF 2 \in surrounds THEN <<"D_R2">> ELSE <<>>
      s3 == IF 3 \in surrounds THEN <<"D_L3", "D_R3">> ELSE <<>>
      s5 == IF 5 \in surrounds THEN <<"D_Ls5", "D_Rs5">> ELSE <<>>
      s7 == IF 7 \in surrounds
            THEN <<"D_L7", "D_R7", "D_Lrs7", "D_Rrs7">> ELSE <<>>
      heights ==
        IF accumulated_channels.height = 2
        THEN IF layer_channels.height = 4 THEN <<"D_Ltb4", "D_Rtb4">>
             ELSE IF /\ layer_channels.height = 2
                     /\ accumulated_channels.surround = 3
                     /\ layer_channels.surround > 3
             THEN <<"D_Ltf2", "D_Rtf2">>
             ELSE <<>>
        ELSE <<>>
  IN
  IF \E surround \in surrounds : surround > 7
  THEN [status |-> kInvalidArgument,
        demixed_channel_labels |-> s2 \o s3 \o s5 \o s7]
  ELSE [status |-> kOk,
        demixed_channel_labels |-> s2 \o s3 \o s5 \o s7 \o heights]

\* FindDemixedChannels with D_Ltf2 and D_Rtf2 pushed whatever the accumulated
\* surround count.
FindDemixedChannels_AnySurround(accumulated_channels, layer_channels) ==
  LET surrounds == (accumulated_channels.surround + 1)..layer_channels.surround
      s2 == IF 2 \in surrounds /\ accumulated_channels.surround = 1
            THEN <<"D_R2">> ELSE <<>>
      s3 == IF 3 \in surrounds THEN <<"D_L3", "D_R3">> ELSE <<>>
      s5 == IF 5 \in surrounds THEN <<"D_Ls5", "D_Rs5">> ELSE <<>>
      s7 == IF 7 \in surrounds
            THEN <<"D_L7", "D_R7", "D_Lrs7", "D_Rrs7">> ELSE <<>>
      heights ==
        IF accumulated_channels.height = 2
        THEN IF layer_channels.height = 4 THEN <<"D_Ltb4", "D_Rtb4">>
             ELSE IF /\ layer_channels.height = 2
                     /\ layer_channels.surround > 3
             THEN <<"D_Ltf2", "D_Rtf2">>
             ELSE <<>>
        ELSE <<>>
  IN
  IF \E surround \in surrounds : surround > 7
  THEN [status |-> kInvalidArgument,
        demixed_channel_labels |-> s2 \o s3 \o s5 \o s7]
  ELSE [status |-> kOk,
        demixed_channel_labels |-> s2 \o s3 \o s5 \o s7 \o heights]

\* FindDemixedChannels: the labels pushed, in order, and the status.
FindDemixedChannels(accumulated_channels, layer_channels) ==
  LET surrounds == (accumulated_channels.surround + 1)..layer_channels.surround
      s2 == IF 2 \in surrounds /\ accumulated_channels.surround = 1
            THEN <<"D_R2">> ELSE <<>>
      s3 == IF 3 \in surrounds THEN <<"D_L3", "D_R3">> ELSE <<>>
      s5 == IF 5 \in surrounds THEN <<"D_Ls5", "D_Rs5">> ELSE <<>>
      s7 == IF 7 \in surrounds
            THEN <<"D_L7", "D_R7", "D_Lrs7", "D_Rrs7">> ELSE <<>>
      heights ==
        IF accumulated_channels.height = 2
        THEN IF layer_channels.height = 4 THEN <<"D_Ltb4", "D_Rtb4">>
             ELSE IF /\ layer_channels.height = 2
                     /\ accumulated_channels.surround = 3
                     /\ layer_channels.surround > 3
             THEN <<"D_Ltf2", "D_Rtf2">>
             ELSE <<>>
        ELSE <<>>
  IN
  IF \E surround \in surrounds : surround > 7
  THEN [status |-> kInvalidArgument,
        demixed_channel_labels |-> s2 \o s3 \o s5 \o s7]
  ELSE [status |-> kOk,
        demixed_channel_labels |-> s2 \o s3 \o s5 \o s7 \o heights]

\* The bit position ConvertReconGainsAndFlags gives a label (0 when the label
\* is not recognised).
ReconGainBitPosition(label) ==
  CASE label \in {"D_L7", "D_L5", "D_L3"} -> 0
    [] label \in {"D_R7", "D_R5", "D_R3", "D_R2"} -> 2
    [] label = "D_Ls5" -> 3
    [] label = "D_Rs5" -> 4
    [] label \in {"D_Ltf4", "D_Ltf2"} -> 5
    [] label \in {"D_Rtf4", "D_Rtf2"} -> 6
    [] label = "D_Lrs7" -> 7
    [] label = "D_Rrs7" -> 8
    [] label = "D_Ltb4" -> 9
    [] label = "D_Rtb4" -> 10
    [] OTHER -> 0

\* static_cast<uint8_t>(recon_gain * 255.0) for a gain num/den in [0, 1].
ScaleReconGain(recon_gain) == (recon_gain.num * 255) \div recon_gain.den

ZeroReconGains == [i \in 0..11 |-> 0]

\* ConvertReconGainsAndFlags: the loop over label_to_recon_gain, the map's
\* entries visited in `order`.
RECURSIVE ConvertReconGainsAndFlags(_, _, _, _)
ConvertReconGainsAndFlags(order, label_to_recon_gain, computed_recon_gains, computed_recon_gain_flag) ==
  IF order = <<>>
  THEN [status |-> kOk, computed_recon_gains |-> computed_recon_gains,
        computed_recon_gain_flag |-> computed_recon_gain_flag]
  ELSE
    LET label == Head(order)
        bit_position == ReconGainBitPosition(label)
    IN ConvertReconGainsAndFlags(
         Tail(order), label_to_recon_gain,
         [computed_recon_gains EXCEPT
            ![bit_position] = ScaleReconGain(label_to_recon_gain[label])],
         OrBit(computed_recon_gain_flag, bit_position))

Reverse(s) == [i \in 1..Len(s) |-> s[Len(s) + 1 - i]]

\* ComputeReconGains without the comparison of recon_gain_is_present_flags
\* with the presence of demixed labels.
ComputeReconGains_NoPresenceCheck(layer_index, layer_channels, accumulated_channels, frames, recon_gain_is_present_flags) ==
  Only({
    LET labels == found.demixed_channel_labels
        label_to_recon_gain == [l \in Range(labels) |-> frames.recon_gain[l]]
        Fail(st) == [status |-> st, computed_recon_gains |-> ZeroReconGains,
                     computed_recon_gain_flag |-> 0]
    IN
    IF found.status # kOk THEN Fail(found.status)
    ELSE ConvertReconGainsAndFlags(
           IF frames.reverse THEN Reverse(labels) ELSE labels,
           label_to_recon_gain, ZeroReconGains, 0)
    : found \in {IF layer_index > 0
                 THEN FindDemixedChannels(accumulated_channels, layer_channels)
                 ELSE [status |-> kOk, demixed_channel_labels |-> <<>>]}})

\* ComputeReconGains. `frames` stands for the ReconGainGenerator of the call:
\* frames.recon_gain[label] is what ComputeReconGain returns for the label,
\* frames.reverse picks the order in which label_to_recon_gain is iterated.
ComputeReconGains(layer_index, layer_channels, accumulated_channels, frames, recon_gain_is_present_flags) ==
  Only({
    LET labels == found.demixed_channel_labels
        label_to_recon_gain == [l \in Range(labels) |-> frames.recon_gain[l]]
        Fail(st) == [status |-> st, computed_recon_gains |-> ZeroReconGains,
                     computed_recon_gain_flag |-> 0]
    IN
    IF found.status # kOk THEN Fail(found.status)
    ELSE IF recon_gain_is_present_flags[layer_index + 1] # (labels # <<>>)
    THEN Fail(kInvalidArgument)
    ELSE ConvertReconGainsAndFlags(
           IF frames.reverse THEN Reverse(labels) ELSE labels,
           label_to_recon_gain, ZeroReconGains, 0)
    : found \in {IF layer_index > 0
                 THEN FindDemixedChannels(accumulated_channels, layer_channels)
                 ELSE [status |-> kOk, demixed_channel_labels |-> <<>>]}})


\* user_recon_gain_flag: the bits 1 << bit_position of the declared positions.
RECURSIVE FlagOfPositions(_)
FlagOfPositions(positions) ==
  IF positions = {} THEN 0
  ELSE LET bit_position == CHOOSE b \in positions : TRUE
       IN OrBit(FlagOfPositions(positions \ {bit_position}), bit_position)

\* The loop of GenerateReconGainSubblock comparing the flags only.
RECURSIVE ReconGainLayers_FlagOnly(_, _, _, _)
ReconGainLayers_FlagOnly(layer_index, accumulated_channels, recon_gain_elements, c) ==
  IF layer_index >= c.num_layers
  THEN [status |-> kOk, recon_gain_elements |-> recon_gain_elements]
  ELSE
    LET user == c.user_recon_gains_layers[layer_index + 1].recon_gain
        user_recon_gain_flag == FlagOfPositions(DOMAIN user)
        user_recon_gains ==
          [i \in 0..11 |-> IF i \in DOMAIN user THEN user[i] % 256 ELSE 0]
        output_recon_gain_element ==
          [recon_gain_flag |-> user_recon_gain_flag,
           recon_gain |->
             [i \in 0..11 |->
                IF i \in DOMAIN user THEN user_recon_gains[i]
                ELSE recon_gain_elements[layer_index + 1].recon_gain[i]]]
        elements1 == [recon_gain_elements EXCEPT
                        ![layer_index + 1] = output_recon_gain_element]
        layer_channels == c.channel_numbers_for_layers[layer_index + 1]
        computed == ComputeReconGains(layer_index, layer_channels,
                                      accumulated_channels, c.frames,
                                      c.recon_gain_is_present_flags)
    IN
    IF c.override_computed_recon_gains
    THEN ReconGainLayers_FlagOnly(layer_index + 1, accumulated_channels,
                                  elements1, c)
    ELSE IF computed.status # kOk
    THEN [status |-> computed.status, recon_gain_elements |-> elements1]
    ELSE IF ~c.recon_gain_is_present_flags[layer_index + 1]
    THEN ReconGainLayers_FlagOnly(layer_index + 1, layer_channels,
                                  elements1, c)
    ELSE IF computed.computed_recon_gain_flag # user_recon_gain_flag
    THEN [status |-> kInvalidArgument, recon_gain_elements |-> elements1]
    ELSE ReconGainLayers_FlagOnly(layer_index + 1, layer_channels,
                                  elements1, c)

\* The loop of GenerateReconGainSubblock from layer_index on. c holds the
\* arguments of the call. Every bit_position declared in the inputs drawn by
\* this model is below 12.
RECURSIVE ReconGainLayers(_, _, _, _)
ReconGainLayers(layer_index, accumulated_channels, recon_gain_elements, c) ==
  IF layer_index >= c.num_layers
  THEN [status |-> kOk, recon_gain_elements |-> recon_gain_elements]
  ELSE
    LET user == c.user_recon_gains_layers[layer_index + 1].recon_gain
        user_recon_gain_flag == FlagOfPositions(DOMAIN user)
        \* a std::vector<uint8_t>: the 32-bit user value is truncated
        user_recon_gains ==
          [i \in 0..11 |-> IF i \in DOMAIN user THEN user[i] % 256 ELSE 0]
        output_recon_gain_element ==
          [recon_gain_flag |-> user_recon_gain_flag,
           recon_gain |->
             [i \in 0..11 |->
                IF i \in DOMAIN user THEN user_recon_gains[i]
                ELSE recon_gain_elements[layer_index + 1].recon_gain[i]]]
        elements1 == [recon_gain_elements EXCEPT
                        ![layer_index + 1] = output_recon_gain_element]
        layer_channels == c.channel_numbers_for_layers[layer_index + 1]
        computed == ComputeReconGains(layer_index, layer_channels,
                                      accumulated_channels, c.frames,
                                      c.recon_gain_is_present_flags)
    IN
    IF c.override_computed_recon_gains
    THEN ReconGainLayers(layer_index + 1, accumulated_channels, elements1, c)
    ELSE IF computed.status # kOk
    THEN [status |-> computed.status, recon_gain_elements |-> elements1]
    ELSE IF ~c.recon_gain_is_present_flags[layer_index + 1]
    THEN ReconGainLayers(layer_index + 1, layer_channels, elements1, c)
    ELSE IF computed.computed_recon_gain_flag # user_recon_gain_flag
    THEN [status |-> kInvalidArgument, recon_gain_elements |-> elements1]
    ELSE IF \E i \in 0..11 :
              user_recon_gains[i] # computed.computed_recon_gains[i]
    THEN [status |-> kInvalidArgument, recon_gain_elements |-> elements1]
    ELSE ReconGainLayers(layer_index + 1, layer_channels, elements1, c)

\* GenerateReconGainSubblock computing and comparing whatever the override.
GenerateReconGainSubblock_IgnoreOverride(override_computed_recon_gains, num_layers, recon_gain_is_present_flags, channel_numbers_for_layers, metadata, frames) ==
  LET user_recon_gains_layers == metadata.recon_gains_for_layer IN
  IF num_layers > 1 /\ num_layers # Len(user_recon_gains_layers)
  THEN [status |-> kInvalidArgument, param_data |-> NoParamData]
  ELSE
    Only({
      [status |-> r.status,
       param_data |-> [kind |-> "recon_gain",
                       recon_gain_elements |-> r.recon_gain_elements]]
      : r \in {ReconGainLayers(
                 0, [surround |-> 0, height |-> 0, lfe |-> 0],
                 [l \in 1..num_layers |->
                    [recon_gain_flag |-> 0, recon_gain |-> ZeroReconGains]],
                 [override_computed_recon_gains |-> FALSE,
                  num_layers |-> num_layers,
                  recon_gain_is_present_flags |-> recon_gain_is_present_flags,
                  channel_numbers_for_layers |-> channel_numbers_for_layers,
                  user_recon_gains_layers |-> user_recon_gains_layers,
                  frames |-> frames])}})

\* GenerateReconGainSubblock
GenerateReconGainSubblock(override_computed_recon_gains, num_layers, recon_gain_is_present_flags, channel_numbers_for_layers, metadata, frames) ==
  LET user_recon_gains_layers == metadata.recon_gains_for_layer IN
  IF num_layers > 1 /\ num_layers # Len(user_recon_gains_layers)
  THEN [status |-> kInvalidArgument, param_data |-> NoParamData]
  ELSE
    Only({
      [status |-> r.status,
       param_data |-> [kind |-> "recon_gain",
                       recon_gain_elements |-> r.recon_gain_elements]]
      : r \in {ReconGainLayers(
                 0, [surround |-> 0, height |-> 0, lfe |-> 0],
                 [l \in 1..num_layers |->
                    [recon_gain_flag |-> 0, recon_gain |-> ZeroReconGains]],
                 [override_computed_recon_gains |->
                    override_computed_recon_gains,
                  num_layers |-> num_layers,
                  recon_gain_is_present_flags |-> recon_gain_is_present_flags,
                  channel_numbers_for_layers |-> channel_numbers_for_layers,
                  user_recon_gains_layers |-> user_recon_gains_layers,
                  frames |-> frames])}})

----------------------------------------------------------------------------
(* ParameterBlockObu (iamf/obu/parameter_block) and the global timing     *)
(* module (iamf/cli/global_timing_module).                                 *)

\* ParameterBlockObu(header, parameter_id, &per_id_metadata)
NewParameterBlockObu(parameter_id, per_id_metadata) ==
  [parameter_id |-> parameter_id,
   param_definition_mode |-> per_id_metadata.param_definition.param_definition_mode_,
   duration |-> 0, constant_subblock_duration |-> 0, num_subblocks |-> 0,
   subblock_durations |-> <<>>, subblock_duration_set |-> <<>>,
   subblocks_ |-> <<>>]

\* InitializeSubblocks(duration, constant_subblock_duration, num_subblocks):
\* the partitioning of a mode-1 block is the one given.
InitializeSubblocksFromMetadata(obu, duration, constant_subblock_duration, num_subblocks) ==
  [obu EXCEPT !.duration = duration,
              !.constant_subblock_duration = constant_subblock_duration,
              !.num_subblocks = num_subblocks,
              !.subblock_durations = [i \in 1..num_subblocks |-> 0],
              !.subblock_duration_set = [i \in 1..num_subblocks |-> FALSE],
              !.subblocks_ = [i \in 1..num_subblocks |-> NoParamData]]

\* InitializeSubblocks(): a mode-0 block adopts its definition's partitioning.
InitializeSubblocks(obu, param_definition) ==
  [obu EXCEPT !.duration = param_definition.duration_,
              !.constant_subblock_duration =
                 param_definition.constant_subblock_duration_,
              !.num_subblocks = param_definition.num_subblocks_,
              !.subblock_durations = param_definition.subblock_durations_,
              !.subblock_duration_set =
                 [i \in 1..param_definition.num_subblocks_ |-> FALSE],
              !.subblocks_ =
                 [i \in 1..param_definition.num_subblocks_ |-> NoParamData]]

GetNumSubblocks(obu) == obu.num_subblocks
GetConstantSubblockDuration(obu) == obu.constant_subblock_duration

\* SetSubblockDuration(subblock_index, duration); subblock_duration_set
\* records which subblocks it was called for.
SetSubblockDuration(obu, subblock_index, duration) ==
  [obu EXCEPT !.subblock_durations[subblock_index + 1] = duration,
              !.subblock_duration_set[subblock_index + 1] = TRUE]

\* The duration of subblock i (0-based) of a block: explicit when
\* constant_subblock_duration = 0; otherwise constant, the last subblock
\* taking what remains of the duration.
GetSubblockDuration(obu, i) ==
  IF obu.constant_subblock_duration = 0 THEN obu.subblock_durations[i + 1]
  ELSE IF i + 1 < obu.num_subblocks THEN obu.constant_subblock_duration
  ELSE obu.duration - (obu.num_subblocks - 1) * obu.constant_subblock_duration

\* A timing module with one clock, that of parameter 1, for every parameter.
GetNextParameterBlockTimestamps_SingleClock(timing, parameter_id, input_start_timestamp, duration) ==
  IF input_start_timestamp # timing[1]
  THEN [status |-> kInvalidArgument, start_timestamp |-> 0,
        end_timestamp |-> 0, timing |-> timing]
  ELSE [status |-> kOk,
        start_timestamp |-> input_start_timestamp,
        end_timestamp |-> input_start_timestamp + duration,
        timing |-> [timing EXCEPT ![1] = input_start_timestamp + duration]]

\* GlobalTimingModule::GetNextParameterBlockTimestamps
GetNextParameterBlockTimestamps(timing, parameter_id, input_start_timestamp, duration) ==
  IF input_start_timestamp # timing[parameter_id]
  THEN [status |-> kInvalidArgument, start_timestamp |-> 0,
        end_timestamp |-> 0, timing |-> timing]
  ELSE [status |-> kOk,
        start_timestamp |-> input_start_timestamp,
        end_timestamp |-> input_start_timestamp + duration,
        timing |-> [timing EXCEPT
                      ![parameter_id] = input_start_timestamp + duration]]

----------------------------------------------------------------------------
(* Generation of one parameter block.                                      *)

\* PopulateCommonFields asking the timing module for the definition's
\* duration whatever the mode.
PopulateCommonFields_DefinitionDuration(parameter_block_metadata, per_id_metadata, timing) ==
  LET duration == per_id_metadata.param_definition.duration_
      t == GetNextParameterBlockTimestamps(
             timing, parameter_block_metadata.parameter_id,
             parameter_block_metadata.start_timestamp, duration)
      obu == NewParameterBlockObu(parameter_block_metadata.parameter_id,
                                  per_id_metadata)
  IN
  IF t.status # kOk
  THEN [status |-> t.status, timing |-> t.timing, obu |-> obu,
        start_timestamp |-> 0, end_timestamp |-> 0]
  ELSE
    [status |-> kOk, timing |-> t.timing,
     start_timestamp |-> t.start_timestamp,
     end_timestamp |-> t.end_timestamp,
     obu |->
       IF per_id_metadata.param_definition.param_definition_mode_ = 1
       THEN InitializeSubblocksFromMetadata(
              obu, parameter_block_metadata.duration,
              parameter_block_metadata.constant_subblock_duration,
              parameter_block_metadata.num_subblocks)
       ELSE InitializeSubblocks(obu, per_id_metadata.param_definition)]

\* PopulateCommonFields going on after the timing module rejected the claimed
\* start, with the timestamps the record claims.
PopulateCommonFields_IgnoreTimingStatus(parameter_block_metadata, per_id_metadata, timing) ==
  LET duration ==
        IF per_id_metadata.param_definition.param_definition_mode_ = 1
        THEN parameter_block_metadata.duration
        ELSE per_id_metadata.param_definition.duration_
      t == GetNextParameterBlockTimestamps(
             timing, parameter_block_metadata.parameter_id,
             parameter_block_metadata.start_timestamp, duration)
      obu == NewParameterBlockObu(parameter_block_metadata.parameter_id,
                                  per_id_metadata)
  IN
  [status |-> kOk, timing |-> t.timing,
   start_timestamp |-> parameter_block_metadata.start_timestamp,
   end_timestamp |-> parameter_block_metadata.start_timestamp + duration,
   obu |->
     IF per_id_metadata.param_definition.param_definition_mode_ = 1
     THEN InitializeSubblocksFromMetadata(
            obu, parameter_block_metadata.duration,
            parameter_block_metadata.constant_subblock_duration,
            parameter_block_metadata.num_subblocks)
     ELSE InitializeSubblocks(obu, per_id_metadata.param_definition)]

\* PopulateCommonFields: the timestamps from the timing module, then the OBU
\* with its subblock partitioning.
PopulateCommonFields(parameter_block_metadata, per_id_metadata, timing) ==
  LET duration ==
        IF per_id_metadata.param_definition.param_definition_mode_ = 1
        THEN parameter_block_metadata.duration
        ELSE per_id_metadata.param_definition.duration_
      t == GetNextParameterBlockTimestamps(
             timing, parameter_block_metadata.parameter_id,
             parameter_block_metadata.start_timestamp, duration)
      obu == NewParameterBlockObu(parameter_block_metadata.parameter_id,
                                  per_id_metadata)
  IN
  IF t.status # kOk
  THEN [status |-> t.status, timing |-> t.timing, obu |-> obu,
        start_timestamp |-> 0, end_timestamp |-> 0]
  ELSE
    [status |-> kOk, timing |-> t.timing,
     start_timestamp |-> t.start_timestamp,
     end_timestamp |-> t.end_timestamp,
     obu |->
       IF per_id_metadata.param_definition.param_definition_mode_ = 1
       THEN InitializeSubblocksFromMetadata(
              obu, parameter_block_metadata.duration,
              parameter_block_metadata.constant_subblock_duration,
              parameter_block_metadata.num_subblocks)
       ELSE InitializeSubblocks(obu, per_id_metadata.param_definition)]

\* GenerateParameterBlockSubblock
GenerateParameterBlockSubblock(override_computed_recon_gains, per_id_metadata, include_subblock_duration, subblock_index, metadata_subblock, frames, obu) ==
  LET obu1 == IF include_subblock_duration
              THEN SetSubblockDuration(obu, subblock_index,
                                       metadata_subblock.subblock_duration)
              ELSE obu
      type == per_id_metadata.param_definition_type
  IN
  Only({
    IF r.status # kOk THEN [status |-> r.status, obu |-> obu1]
    ELSE [status |-> kOk,
          obu |-> [obu1 EXCEPT !.subblocks_[subblock_index + 1] = r.param_data]]
    : r \in {
        CASE type = kParameterDefinitionMixGain ->
               GenerateMixGainSubblock(
                 metadata_subblock.mix_gain_parameter_data)
          [] type = kParameterDefinitionDemixing ->
               IF subblock_index > 1
               THEN [status |-> kInvalidArgument, param_data |-> NoParamData]
               ELSE CopyDemixingInfoParameterData(
                      metadata_subblock.demixing_info_parameter_data)
          [] type = kParameterDefinitionReconGain ->
               IF subblock_index > 1
               THEN [status |-> kInvalidArgument, param_data |-> NoParamData]
               ELSE GenerateReconGainSubblock(
                      override_computed_recon_gains,
                      per_id_metadata.num_layers,
                      per_id_metadata.recon_gain_is_present_flags,
                      per_id_metadata.channel_numbers_for_layers,
                      metadata_subblock.recon_gain_info_parameter_data,
                      frames)
          [] OTHER ->
               [status |-> kInvalidArgument, param_data |-> NoParamData]}})

\* The loop of PopulateSubblocks from subblock i on.
RECURSIVE PopulateSubblocksLoop(_, _, _, _)
PopulateSubblocksLoop(i, num_subblocks, obu, c) ==
  IF i >= num_subblocks THEN [status |-> kOk, obu |-> obu]
  ELSE
    Only({
      IF r.status # kOk THEN r
      ELSE PopulateSubblocksLoop(i + 1, num_subblocks, r.obu, c)
      : r \in {GenerateParameterBlockSubblock(
                 c.override_computed_recon_gains, c.per_id_metadata,
                 c.include_subblock_duration, i,
                 c.parameter_block_metadata.subblocks[i + 1], c.frames,
                 obu)}})

\* PopulateSubblocks rejecting only a record with too few subblock records.
PopulateSubblocks_TooFewOnly(parameter_block_metadata, override_computed_recon_gains, frames, per_id_metadata, obu) ==
  LET num_subblocks == GetNumSubblocks(obu)
      include_subblock_duration ==
        /\ per_id_metadata.param_definition.param_definition_mode_ = 1
        /\ GetConstantSubblockDuration(obu) = 0
  IN
  IF num_subblocks > Len(parameter_block_metadata.subblocks)
  THEN [status |-> kInvalidArgument, obu |-> obu]
  ELSE PopulateSubblocksLoop(
         0, num_subblocks, obu,
         [override_computed_recon_gains |-> override_computed_recon_gains,
          per_id_metadata |-> per_id_metadata,
          include_subblock_duration |-> include_subblock_duration,
          parameter_block_metadata |-> parameter_block_metadata,
          frames |-> frames])

\* PopulateSubblocks setting the subblock durations of every mode-1 block.
PopulateSubblocks_Mode1Only(parameter_block_metadata, override_computed_recon_gains, frames, per_id_metadata, obu) ==
  LET num_subblocks == GetNumSubblocks(obu)
      include_subblock_duration ==
        per_id_metadata.param_definition.param_definition_mode_ = 1
  IN
  IF num_subblocks # Len(parameter_block_metadata.subblocks)
  THEN [status |-> kInvalidArgument, obu |-> obu]
  ELSE PopulateSubblocksLoop(
         0, num_subblocks, obu,
         [override_computed_recon_gains |-> override_computed_recon_gains,
          per_id_metadata |-> per_id_metadata,
          include_subblock_duration |-> include_subblock_duration,
          parameter_block_metadata |-> parameter_block_metadata,
          frames |-> frames])

\* PopulateSubblocks
PopulateSubblocks(parameter_block_metadata, override_computed_recon_gains, frames, per_id_metadata, obu) ==
  LET num_subblocks == GetNumSubblocks(obu)
      include_subblock_duration ==
        /\ per_id_metadata.param_definition.param_definition_mode_ = 1
        /\ GetConstantSubblockDuration(obu) = 0
  IN
  IF num_subblocks # Len(parameter_block_metadata.subblocks)
  THEN [status |-> kInvalidArgument, obu |-> obu]
  ELSE PopulateSubblocksLoop(
         0, num_subblocks, obu,
         [override_computed_recon_gains |-> override_computed_recon_gains,
          per_id_metadata |-> per_id_metadata,
          include_subblock_duration |-> include_subblock_duration,
          parameter_block_metadata |-> parameter_block_metadata,
          frames |-> frames])

\* The blocks of parameter_id in a list of blocks, in the list's order.
BlocksOf(blocks, parameter_id) ==
  SelectSeq(blocks, LAMBDA b : b.obu.parameter_id = parameter_id)

\* The end of the last block of parameter_id in the list, 0 when it has none.
LastEnd(blocks, parameter_id) ==
  LET of == BlocksOf(blocks, parameter_id)
  IN IF of = <<>> THEN 0 ELSE of[Len(of)].end_timestamp

\* The loop of GenerateParameterBlocks over the records left in `queue`.
\* An entry of a queue is [metadata, uid, duration]: the record, the number of
\* the AddMetadata call that queued it and the duration that call returned.
\* The log gets one entry per record visited: the queue entry, the timing
\* module's expected start before and after, the status, the frames the call
\* was given and the block made.
RECURSIVE GenerateParameterBlocksLoop(_, _, _, _, _)
GenerateParameterBlocksLoop(queue, timing, output, entries, c) ==
  IF queue = <<>>
  THEN [status |-> kOk, timing |-> timing, output |-> output, log |-> entries]
  ELSE
    LET e == Head(queue)
        parameter_block_metadata == e.metadata
        parameter_id == parameter_block_metadata.parameter_id
        per_id_metadata == c.metadata_map[parameter_id]
    IN
    Only({Only({
    LET st == sub.status
        \* the ParameterBlockWithData, with the queue entry it was made from
        block == [obu |-> sub.obu,
                  start_timestamp |-> common.start_timestamp,
                  end_timestamp |-> common.end_timestamp,
                  from |-> e]
        entry == [from |-> e,
                  prev_end |-> LastEnd(output, parameter_id),
                  expected_start |-> timing[parameter_id],
                  next_start |-> common.timing[parameter_id],
                  status |-> st,
                  timing_ok |-> common.status = kOk,
                  num_subblocks |-> GetNumSubblocks(common.obu),
                  frames |-> c.frames,
                  block |-> IF st = kOk THEN block ELSE NoParamData]
    IN
    IF st # kOk
    THEN [status |-> st, timing |-> common.timing, output |-> output,
          log |-> Append(entries, entry)]
    ELSE GenerateParameterBlocksLoop(Tail(queue), common.timing,
                                     Append(output, block),
                                     Append(entries, entry), c)
    \* RETURN_IF_NOT_OK(PopulateCommonFields(...)), then PopulateSubblocks
    : sub \in {IF common.status # kOk
               THEN [status |-> common.status, obu |-> common.obu]
               ELSE PopulateSubblocks(parameter_block_metadata,
                                      c.override_computed_recon_gains,
                                      c.frames, per_id_metadata, common.obu)}})
    : common \in {PopulateCommonFields(parameter_block_metadata,
                                       per_id_metadata, timing)}})

\* The parameter ids of the records of a run of the loop that the timing
\* module rejected.
RejectedIn(entries) ==
  {entries[i].from.metadata.parameter_id :
     i \in {j \in DOMAIN entries : ~entries[j].timing_ok}}

\* GenerateParameterBlocks failing when Initialize has not been called.
GenerateParameterBlocks_RequireInitialize(type, frames, name) ==
  \E r \in {IF ~initialize_call.called
            THEN [status |-> "FailedPrecondition",
                  timing |-> global_timing_module,
                  output |-> output_parameter_blocks, log |-> log]
            ELSE GenerateParameterBlocksLoop(
                   typed_proto_metadata_[type], global_timing_module,
                   output_parameter_blocks, <<>>,
                   [metadata_map |-> parameter_id_to_metadata_,
                    override_computed_recon_gains |->
                      override_computed_recon_gains_,
                    frames |-> frames])} :
  /\ Len(r.output) <= MaxOutput
  /\ global_timing_module' = r.timing
  /\ output_parameter_blocks' = r.output
  /\ log' = r.log
  /\ status' = r.status
  /\ typed_proto_metadata_' =
       IF r.status = kOk
       THEN [typed_proto_metadata_ EXCEPT ![type] = <<>>]
       ELSE typed_proto_metadata_
  /\ last_call' = name
  /\ unit_calls' = unit_calls \cup {name}
  /\ UNCHANGED <<override_computed_recon_gains_, parameter_id_to_metadata_,
                 num_added, initialize_call, flac_state, helper_calls>>
  /\ rejected_ids' = rejected_ids \cup RejectedIn(r.log)

\* ParameterBlockGenerator::GenerateParameterBlocks on the queue of `type`.
GenerateParameterBlocks(type, frames, name) ==
  \E r \in {GenerateParameterBlocksLoop(
             typed_proto_metadata_[type], global_timing_module,
             output_parameter_blocks, <<>>,
             [metadata_map |-> parameter_id_to_metadata_,
              override_computed_recon_gains |-> override_computed_recon_gains_,
              frames |-> frames])} :
  /\ Len(r.output) <= MaxOutput
  /\ global_timing_module' = r.timing
  /\ output_parameter_blocks' = r.output
  /\ log' = r.log
  /\ status' = r.status
  /\ typed_proto_metadata_' =
       IF r.status = kOk
       THEN [typed_proto_metadata_ EXCEPT ![type] = <<>>]
       ELSE typed_proto_metadata_
  /\ last_call' = name
  /\ unit_calls' = unit_calls \cup {name}
  /\ UNCHANGED <<override_computed_recon_gains_, parameter_id_to_metadata_,
                 num_added, initialize_call, flac_state, helper_calls>>
  /\ rejected_ids' = rejected_ids \cup RejectedIn(r.log)

----------------------------------------------------------------------------
(* The public methods.                                                     *)

AllQueueTypes ==
  ParameterDefinitionTypes
    \cup {kParameterDefinitionUnset, kParameterDefinitionReservedStart}

\* AddMetadata without the lookup of the parameter id: a record whose id has
\* no per-id metadata is queued under the type of a default entry.
AddMetadata_QueueStray(parameter_block_metadata) ==
  /\ LET per_id_metadata ==
           IF parameter_block_metadata.parameter_id
                \in DOMAIN parameter_id_to_metadata_
           THEN parameter_id_to_metadata_[
                  parameter_block_metadata.parameter_id]
           ELSE DefaultPerIdParameterMetadata
         duration ==
           IF per_id_metadata.param_definition.param_definition_mode_ = 0
           THEN per_id_metadata.param_definition.duration_
           ELSE parameter_block_metadata.duration
     IN
     /\ typed_proto_metadata_' =
          [typed_proto_metadata_ EXCEPT
             ![per_id_metadata.param_definition_type] =
                Append(@, [metadata |-> parameter_block_metadata,
                           uid |-> num_added + 1,
                           duration |-> duration])]
     /\ num_added' = num_added + 1
     /\ status' = kOk
  /\ last_call' = "AddMetadata"
  /\ unit_calls' = {}
  /\ UNCHANGED <<override_computed_recon_gains_, parameter_id_to_metadata_,
                 global_timing_module, output_parameter_blocks, log,
                 initialize_call, rejected_ids, flac_state, helper_calls>>

\* AddMetadata returning the record's duration whatever the mode.
AddMetadata_RecordDuration(parameter_block_metadata) ==
  /\ IF parameter_block_metadata.parameter_id
          \notin DOMAIN parameter_id_to_metadata_
     THEN /\ status' = kInvalidArgument
          /\ UNCHANGED <<typed_proto_metadata_, num_added>>
     ELSE
       LET per_id_metadata ==
             parameter_id_to_metadata_[parameter_block_metadata.parameter_id]
           duration == parameter_block_metadata.duration
       IN
       /\ typed_proto_metadata_' =
            [typed_proto_metadata_ EXCEPT
               ![per_id_metadata.param_definition_type] =
                  Append(@, [metadata |-> parameter_block_metadata,
                             uid |-> num_added + 1,
                             duration |-> duration])]
       /\ num_added' = num_added + 1
       /\ status' = kOk
  /\ last_call' = "AddMetadata"
  /\ unit_calls' = {}
  /\ UNCHANGED <<override_computed_recon_gains_, parameter_id_to_metadata_,
                 global_timing_module, output_parameter_blocks, log,
                 initialize_call, rejected_ids, flac_state, helper_calls>>

\* AddMetadata with a single queue: every record goes to the mix-gain queue.
AddMetadata_SingleQueue(parameter_block_metadata) ==
  /\ IF parameter_block_metadata.parameter_id
          \notin DOMAIN parameter_id_to_metadata_
     THEN /\ status' = kInvalidArgument
          /\ UNCHANGED <<typed_proto_metadata_, num_added>>
     ELSE
       LET per_id_metadata ==
             parameter_id_to_metadata_[parameter_block_metadata.parameter_id]
           duration ==
             IF per_id_metadata.param_definition.param_definition_mode_ = 0
             THEN per_id_metadata.param_definition.duration_
             ELSE parameter_block_metadata.duration
       IN
       /\ typed_proto_metadata_' =
            [typed_proto_metadata_ EXCEPT
               ![kParameterDefinitionMixGain] =
                  Append(@, [metadata |-> parameter_block_metadata,
                             uid |-> num_added + 1,
                             duration |-> duration])]
       /\ num_added' = num_added + 1
       /\ status' = kOk
  /\ last_call' = "AddMetadata"
  /\ unit_calls' = {}
  /\ UNCHANGED <<override_computed_recon_gains_, parameter_id_to_metadata_,
                 global_timing_module, output_parameter_blocks, log,
                 initialize_call, rejected_ids, flac_state, helper_calls>>

\* ParameterBlockGenerator::AddMetadata
AddMetadata(parameter_block_metadata) ==
  /\ IF parameter_block_metadata.parameter_id
          \notin DOMAIN parameter_id_to_metadata_
     THEN /\ status' = kInvalidArgument
          /\ UNCHANGED <<typed_proto_metadata_, num_added>>
     ELSE
       LET per_id_metadata ==
             parameter_id_to_metadata_[parameter_block_metadata.parameter_id]
           duration ==
             IF per_id_metadata.param_definition.param_definition_mode_ = 0
             THEN per_id_metadata.param_definition.duration_
             ELSE parameter_block_metadata.duration
       IN
       /\ typed_proto_metadata_' =
            [typed_proto_metadata_ EXCEPT
               ![per_id_metadata.param_definition_type] =
                  Append(@, [metadata |-> parameter_block_metadata,
                             uid |-> num_added + 1,
                             duration |-> duration])]
       /\ num_added' = num_added + 1
       /\ status' = kOk
  /\ last_call' = "AddMetadata"
  /\ unit_calls' = {}
  /\ UNCHANGED <<override_computed_recon_gains_, parameter_id_to_metadata_,
                 global_timing_module, output_parameter_blocks, log,
                 initialize_call, rejected_ids, flac_state, helper_calls>>

NoFrames == [recon_gain |-> <<>>, reverse |-> FALSE]

\* ParameterBlockGenerator::GenerateDemixing
GenerateDemixing ==
  GenerateParameterBlocks(kParameterDefinitionDemixing, NoFrames,
                          "GenerateDemixing")

\* ParameterBlockGenerator::GenerateMixGain
GenerateMixGain ==
  GenerateParameterBlocks(kParameterDefinitionMixGain, NoFrames,
                          "GenerateMixGain")

\* ParameterBlockGenerator::GenerateReconGain
GenerateReconGain(frames) ==
  GenerateParameterBlocks(kParameterDefinitionReconGain, frames,
                          "GenerateReconGain")

GenerateCalls == {"GenerateDemixing", "GenerateMixGain", "GenerateReconGain"}

----------------------------------------------------------------------------
(* Inputs.                                                                 *)

DemixedLabels ==
  {"D_R2", "D_L3", "D_R3", "D_Ls5", "D_Rs5", "D_L7", "D_R7", "D_Lrs7",
   "D_Rrs7", "D_Ltb4", "D_Rtb4", "D_Ltf2", "D_Rtf2"}

\* The frames of a GenerateReconGain call: every demixed label has the gain
\* 1/2 or every label has the gain 1/4.
FramesInputs ==
  {[recon_gain |-> [l \in DemixedLabels |-> [num |-> 1, den |-> den]],
    reverse |-> rev] : den \in {2, 4}, rev \in BOOLEAN}

StepAnimation(start_point_value) ==
  [animation_type |-> "ANIMATE_STEP", start_point_value |-> start_point_value,
   end_point_value |-> 0, control_point_value |-> 0,
   control_point_relative_time |-> 0]

\* A subblock record. The "good" payloads are a step within int16 and the
\* recon gains of stereo -> 5.1 for a gain of 1/2; the "bad" ones a step out
\* of int16 and recon gains that omit bit 0.
SubblockInput(subblock_duration, payload) ==
  [subblock_duration |-> subblock_duration,
   mix_gain_parameter_data |->
     IF payload = "good" THEN StepAnimation(-1024) ELSE StepAnimation(32768),
   demixing_info_parameter_data |-> [dmixp_mode |-> 3],
   recon_gain_info_parameter_data |->
     [recon_gains_for_layer |->
        << [recon_gain |-> <<>>],
           [recon_gain |->
              IF payload = "good"
              THEN (0 :> 127) @@ (2 :> 127) @@ (3 :> 127) @@ (4 :> 127)
              ELSE (2 :> 127) @@ (3 :> 127) @@ (4 :> 127)] >>]]

MetadataInput(parameter_id, start_timestamp, duration, constant_subblock_duration, num_subblocks, subblocks) ==
  [parameter_id |-> parameter_id, start_timestamp |-> start_timestamp,
   duration |-> duration,
   constant_subblock_duration |-> constant_subblock_duration,
   num_subblocks |-> num_subblocks, subblocks |-> subblocks]

\* The number of subblocks the definition of parameter_id asks of a
\* well-formed record: the definition's in mode 0, one in mode 1.
WellFormedNumSubblocks(parameter_id) ==
  IF /\ parameter_id \in DOMAIN ParamDefinitions
     /\ ParamDefinitions[parameter_id].param_definition_mode_ = 0
  THEN ParamDefinitions[parameter_id].num_subblocks_
  ELSE 1

\* The records of Spec: a record is well formed ("good"), or well formed but
\* for its payload ("bad"), or has no subblock record at all ("none").
NarrowInputs ==
  {MetadataInput(
     parameter_id, start_timestamp, duration, 0, 1,
     IF shape = "none" THEN <<>>
     ELSE [i \in 1..WellFormedNumSubblocks(parameter_id) |->
             SubblockInput(duration, shape)]) :
     parameter_id \in ParameterIds, start_timestamp \in 0..MaxStart,
     duration \in 0..MaxDuration, shape \in {"good", "bad", "none"}}

\* The records of SpecWide: every partitioning and every list of subblock
\* records within the bounds.
SubblockLists ==
  UNION {[1..n -> {SubblockInput(d, payload) : d \in 0..MaxSubblockDuration}] :
           n \in 0..MaxSubblocks, payload \in {"good", "bad"}}

WideInputs ==
  {MetadataInput(parameter_id, start_timestamp, duration,
                 constant_subblock_duration, num_subblocks, subblocks) :
     parameter_id \in ParameterIds, start_timestamp \in 0..MaxStart,
     duration \in 0..MaxDuration,
     constant_subblock_duration \in 0..MaxDuration,
     num_subblocks \in 0..MaxSubblocks, subblocks \in SubblockLists}

----------------------------------------------------------------------------
(* The FLAC encoder (iamf/cli/flac_encoder_decoder.cc): the frames handed   *)
(* to libflac, its write callbacks and the chronological finalization.      *)

\* num_samples_per_frame_ of the encoder.
num_samples_per_frame_ == 2

\* The most EncodeAudioFrame calls in a run of SpecFlac.
MaxFrames == 3

kWriteStatusOk == "FLAC__STREAM_ENCODER_WRITE_STATUS_OK"
kWriteStatusFatalError == "FLAC__STREAM_ENCODER_WRITE_STATUS_FATAL_ERROR"

\* The map of a flat_hash_map without the key `key`.
Erase(map, key) == [k \in DOMAIN map \ {key} |-> map[k]]

\* LibFlacWriteCallback on the map `frames`: the status returned to libflac
\* and the map afterwards. `buffer` stands for the bytes written.
LibFlacWriteCallback(frames, buffer, samples, current_frame) ==
  IF samples = 0
  THEN [status |-> kWriteStatusOk, frames |-> frames]
  ELSE IF current_frame \notin DOMAIN frames
  THEN [status |-> kWriteStatusFatalError, frames |-> frames]
  ELSE [status |-> kWriteStatusOk,
        frames |->
          [frames EXCEPT
             ![current_frame] =
                [num_samples |-> @.num_samples + samples,
                 audio_frame_with_data |->
                   [@.audio_frame_with_data EXCEPT
                      !.audio_frame_ = Append(@, buffer)]]]]

\* The bytes libflac writes for `samples` samples of frame `current_frame`.
Buffer(current_frame, samples) ==
  [current_frame |-> current_frame, samples |-> samples]

\* frame_index_to_frame_[index].audio_frame_with_data = ...: operator[] makes
\* a FlacFrame with no samples when the index is new.
StoreFrame(frames, index, audio_frame_with_data) ==
  IF index \in DOMAIN frames
  THEN [frames EXCEPT ![index].audio_frame_with_data = audio_frame_with_data]
  ELSE (index :> [num_samples |-> 0,
                  audio_frame_with_data |-> audio_frame_with_data]) @@ frames

\* FlacEncoder::EncodeAudioFrame. `valid` is the outcome of
\* ValidateInputSamples; `process` is what libflac does inside
\* FLAC__stream_encoder_process_interleaved: it takes the block ("ok"), or it
\* calls the write callback for the block at once ("early_write"), or it
\* fails ("error"). The frame is stored only after libflac returned.
\* write_calls records the callback made inside the call as well.
EncodeAudioFrame(valid, process) ==
  /\ finalize_frames.pc = "idle"
  /\ Len(encode_calls) < MaxFrames
  /\ LET audio_frame_with_data ==
           [id |-> Len(encode_calls) + 1, audio_frame_ |-> <<>>]
         current_frame == next_frame_index_
         EncodeFails(st, library_failed) ==
           /\ status' = st
           /\ flac_library' =
                [flac_library EXCEPT !.failed = @ \/ library_failed]
           /\ encode_calls' =
                Append(encode_calls,
                       [id |-> audio_frame_with_data.id, ok |-> FALSE])
           /\ UNCHANGED <<frame_index_to_frame_, next_frame_index_>>
     IN
     IF ~valid THEN EncodeFails(kInvalidArgument, FALSE)
     ELSE IF flac_library.failed \/ process = "error"
     THEN EncodeFails(kUnknown, TRUE)
     ELSE
       \E written \in
            {IF process = "early_write"
             THEN LibFlacWriteCallback(
                    frame_index_to_frame_,
                    Buffer(current_frame, num_samples_per_frame_),
                    num_samples_per_frame_, current_frame)
             ELSE [status |-> kWriteStatusOk,
                   frames |-> frame_index_to_frame_]} :
         IF written.status # kWriteStatusOk
         THEN EncodeFails(kUnknown, TRUE)
         ELSE
           /\ frame_index_to_frame_' =
                StoreFrame(written.frames, next_frame_index_,
                           audio_frame_with_data)
           /\ next_frame_index_' = next_frame_index_ + 1
           /\ flac_library' =
                [flac_library EXCEPT
                   !.remaining =
                      (current_frame :>
                         IF process = "early_write" THEN 0
                         ELSE num_samples_per_frame_) @@ @]
           /\ encode_calls' =
                Append(encode_calls,
                       [id |-> audio_frame_with_data.id, ok |-> TRUE])
           /\ status' = kOk
  /\ write_calls' =
       IF valid /\ ~flac_library.failed /\ process = "early_write"
       THEN Append(write_calls,
                   Buffer(next_frame_index_, num_samples_per_frame_))
       ELSE write_calls
  /\ last_call' = "EncodeAudioFrame"
  /\ UNCHANGED <<finalized_audio_frames_, finalize_frames,
                 streaminfo_finished_, finalize_and_flush, generator_state,
                 helper_calls>>

\* libflac calls LibFlacWriteCallback for `samples` samples of a frame it
\* still has samples of, in any order and in any grouping; samples = 0 is
\* its call for metadata.
LibFlacWriteCallbackStep ==
  /\ ~flac_library.failed
  /\ \E current_frame \in DOMAIN flac_library.remaining \cup {0},
        samples \in 0..num_samples_per_frame_ :
       /\ samples > 0 =>
            /\ current_frame \in DOMAIN flac_library.remaining
            /\ samples <= flac_library.remaining[current_frame]
       /\ \E written \in
            {LibFlacWriteCallback(frame_index_to_frame_,
                                  Buffer(current_frame, samples), samples,
                                  current_frame)} :
            /\ frame_index_to_frame_' = written.frames
            /\ status' = written.status
            /\ flac_library' =
                 IF samples = 0 THEN flac_library
                 ELSE [remaining |->
                         [flac_library.remaining EXCEPT
                            ![current_frame] = @ - samples],
                       failed |-> written.status # kWriteStatusOk]
            /\ write_calls' =
                 IF samples = 0 THEN write_calls
                 ELSE Append(write_calls, Buffer(current_frame, samples))
  /\ last_call' = "LibFlacWriteCallback"
  /\ UNCHANGED <<next_frame_index_, finalized_audio_frames_, finalize_frames,
                 streaminfo_finished_, finalize_and_flush, encode_calls,
                 generator_state, helper_calls>>

\* FinalizeFrames finalizing whichever frame is complete, lowest index first,
\* instead of waiting for the next index.
RECURSIVE FinalizeFramesLoop_AnyComplete(_, _, _)
FinalizeFramesLoop_AnyComplete(frames, finalized, next_frame_index) ==
  LET complete ==
        {k \in DOMAIN frames : frames[k].num_samples = num_samples_per_frame_}
  IN
  IF DOMAIN frames = {}
  THEN [pc |-> "idle", status |-> kOk, frames |-> frames,
        finalized |-> finalized, next_frame_index |-> next_frame_index]
  ELSE IF complete = {}
  THEN [pc |-> "sleeping", status |-> "None", frames |-> frames,
        finalized |-> finalized, next_frame_index |-> next_frame_index]
  ELSE
    LET k == CHOOSE k \in complete : \A j \in complete : k <= j IN
    FinalizeFramesLoop_AnyComplete(
      Erase(frames, k), Append(finalized, frames[k].audio_frame_with_data),
      next_frame_index + 1)

\* FinalizeFrames finalizing the next frame without looking at its samples.
RECURSIVE FinalizeFramesLoop_NoSampleCheck(_, _, _)
FinalizeFramesLoop_NoSampleCheck(frames, finalized, next_frame_index) ==
  IF DOMAIN frames = {}
  THEN [pc |-> "idle", status |-> kOk, frames |-> frames,
        finalized |-> finalized, next_frame_index |-> next_frame_index]
  ELSE IF next_frame_index \notin DOMAIN frames
  THEN [pc |-> "idle", status |-> kUnknown, frames |-> frames,
        finalized |-> finalized, next_frame_index |-> next_frame_index]
  ELSE
    FinalizeFramesLoop_NoSampleCheck(
      Erase(frames, next_frame_index),
      Append(finalized, frames[next_frame_index].audio_frame_with_data),
      next_frame_index + 1)

\* The while loop of FlacEncoder::FinalizeFrames from next_frame_index on,
\* run until it returns (pc "idle") or sleeps (pc "sleeping").
RECURSIVE FinalizeFramesLoop(_, _, _)
FinalizeFramesLoop(frames, finalized, next_frame_index) ==
  IF DOMAIN frames = {}
  THEN [pc |-> "idle", status |-> kOk, frames |-> frames,
        finalized |-> finalized, next_frame_index |-> next_frame_index]
  ELSE IF next_frame_index \notin DOMAIN frames
  THEN [pc |-> "idle", status |-> kUnknown, frames |-> frames,
        finalized |-> finalized, next_frame_index |-> next_frame_index]
  ELSE IF frames[next_frame_index].num_samples # num_samples_per_frame_
  THEN [pc |-> "sleeping", status |-> "None", frames |-> frames,
        finalized |-> finalized, next_frame_index |-> next_frame_index]
  ELSE
    FinalizeFramesLoop(
      Erase(frames, next_frame_index),
      Append(finalized, frames[next_frame_index].audio_frame_with_data),
      next_frame_index + 1)

\* FlacEncoder::FinalizeFrames, from its call (pc "idle", the local
\* next_frame_index starts at 0) or from the end of a sleep, until it returns
\* or sleeps again. finalize_frames keeps the list as it was at the call.
\* The caller says what becomes of finalize_and_flush.
FinalizeFrames ==
  /\ \E r \in {FinalizeFramesLoop(
                 frame_index_to_frame_, finalized_audio_frames_,
                 IF finalize_frames.pc = "idle" THEN 0
                 ELSE finalize_frames.next_frame_index)} :
       /\ frame_index_to_frame_' = r.frames
       /\ finalized_audio_frames_' = r.finalized
       /\ finalize_frames' =
            [pc |-> r.pc, next_frame_index |-> r.next_frame_index,
             finalized_at_call |->
               IF finalize_frames.pc = "idle" THEN finalized_audio_frames_
               ELSE finalize_frames.finalized_at_call,
             slept |-> finalize_frames.pc = "sleeping"]
       /\ status' = r.status
  /\ last_call' = "FinalizeFrames"
  /\ UNCHANGED <<next_frame_index_, flac_library, streaminfo_finished_,
                 encode_calls, write_calls, generator_state, helper_calls>>

\* FinalizeFrames called on its own.
FinalizeFramesStep == FinalizeFrames /\ UNCHANGED finalize_and_flush

\* LibFlacMetadataCallback: streaminfo_finished_ after a metadata block of
\* type `type`.
LibFlacMetadataCallback(type, finished) ==
  IF type = "FLAC__METADATA_TYPE_STREAMINFO" THEN TRUE ELSE finished

\* FlacEncoder::FinalizeAndFlush up to its wait for the STREAMINFO metadata.
\* `finish` is the result of FLAC__stream_encoder_finish and `metadata` the
\* metadata blocks libflac hands to LibFlacMetadataCallback meanwhile.
FinalizeAndFlush ==
  /\ finalize_and_flush = "idle"
  /\ finalize_frames.pc = "idle"
  /\ \E finish \in BOOLEAN,
        metadata \in {<<>>, <<"FLAC__METADATA_TYPE_STREAMINFO">>,
                      <<"FLAC__METADATA_TYPE_PADDING">>} :
       IF ~finish
       THEN /\ status' = kUnknown
            /\ finalize_and_flush' = "returned"
            /\ UNCHANGED streaminfo_finished_
       ELSE /\ status' = "None"
            /\ finalize_and_flush' = "waiting"
            /\ streaminfo_finished_' =
                 IF metadata = <<>> THEN streaminfo_finished_
                 ELSE LibFlacMetadataCallback(metadata[1],
                                              streaminfo_finished_)
  /\ last_call' = "FinalizeAndFlush"
  /\ UNCHANGED <<frame_index_to_frame_, next_frame_index_,
                 finalized_audio_frames_, flac_library, finalize_frames,
                 encode_calls, write_calls, generator_state, helper_calls>>

\* The rest of FinalizeAndFlush: once streaminfo_finished_ is set its wait
\* ends and FinalizeFrames runs until it returns or sleeps; the method
\* returns when FinalizeFrames does. While streaminfo_finished_ is not set,
\* or while the frame FinalizeFrames waits for stays as it is, a poll
\* changes nothing.
FinalizeAndFlushPoll ==
  /\ finalize_and_flush = "waiting"
  /\ streaminfo_finished_
  /\ FinalizeFrames
  /\ finalize_and_flush' =
       IF finalize_frames'.pc = "idle" THEN "returned" ELSE "waiting"

\* The encoder after InitializeEncoder: no frame stored, none finalized.
FlacEncoderInitialized ==
  /\ frame_index_to_frame_ = <<>>
  /\ next_frame_index_ = 0
  /\ finalized_audio_frames_ = <<>>
  /\ flac_library = [remaining |-> <<>>, failed |-> FALSE]
  /\ finalize_frames =
       [pc |-> "idle", next_frame_index |-> 0, finalized_at_call |-> <<>>,
        slept |-> FALSE]
  /\ streaminfo_finished_ = FALSE
  /\ finalize_and_flush = "idle"
  /\ encode_calls = <<>>
  /\ write_calls = <<>>

----------------------------------------------------------------------------
(* The helpers of the recon-gain computation, called on their own.          *)

\* Before the helper is called: the arguments drawn, no result yet.
FindDemixedChannelsArguments(accumulated, layer) ==
  [called |-> FALSE, accumulated_channels |-> accumulated,
   layer_channels |-> layer, status |-> "None",
   demixed_channel_labels |-> <<>>]

ConvertReconGainsAndFlagsArguments(gains, order) ==
  [called |-> FALSE, label_to_recon_gain |-> gains, order |-> order,
   status |-> "None", computed_recon_gains |-> <<>>,
   computed_recon_gain_flag |-> 0]

NoChannels == [surround |-> 0, height |-> 0, lfe |-> 0]

HelpersNotCalled ==
  /\ find_demixed_channels_call =
       FindDemixedChannelsArguments(NoChannels, NoChannels)
  /\ convert_recon_gains_call =
       ConvertReconGainsAndFlagsArguments(<<>>, <<>>)
  /\ recon_gain_subblock_call = [called |-> FALSE]
  /\ compute_recon_gains_call = [called |-> FALSE]

----------------------------------------------------------------------------
(* Specifications.                                                         *)

\* Before Initialize is called.
NotInitialized ==
  [called |-> FALSE, has_ia_sequence_header |-> FALSE, audio_elements |-> <<>>,
   param_definitions |-> <<>>, status |-> "None"]

\* The generator as constructed on the shared map `metadata_map`.
Constructed(metadata_map) ==
  /\ override_computed_recon_gains_ \in BOOLEAN
  /\ parameter_id_to_metadata_ = metadata_map
  /\ typed_proto_metadata_ = [t \in AllQueueTypes |-> <<>>]
  /\ global_timing_module = [p \in ParameterIds |-> 0]
  /\ output_parameter_blocks = <<>>
  /\ status = "None"
  /\ last_call = "None"
  /\ log = <<>>
  /\ num_added = 0
  /\ unit_calls = {}
  /\ initialize_call = NotInitialized
  /\ rejected_ids = {}
  /\ FlacEncoderInitialized

Init == Constructed(<<>>) /\ HelpersNotCalled

\* Initialize is called before the first temporal unit.
InitializeStep ==
  /\ num_added = 0
  /\ \E has_ia_sequence_header \in BOOLEAN,
        order \in IterationOrders(DOMAIN ParamDefinitions) :
       Initialize(has_ia_sequence_header, AudioElements, ParamDefinitions,
                  order)

AddMetadataStep ==
  /\ num_added < MaxAdds
  /\ \E parameter_block_metadata \in NarrowInputs :
       AddMetadata(parameter_block_metadata)

AddMetadataWideStep ==
  /\ num_added < MaxAddsWide
  /\ \E parameter_block_metadata \in WideInputs :
       AddMetadata(parameter_block_metadata)

GenerateReconGainStep == \E frames \in FramesInputs : GenerateReconGain(frames)

Next ==
  \/ InitializeStep
  \/ AddMetadataStep
  \/ GenerateDemixing
  \/ GenerateMixGain
  \/ GenerateReconGainStep

Spec == Init /\ [][Next]_vars

NextWide ==
  \/ InitializeStep
  \/ AddMetadataWideStep
  \/ GenerateDemixing
  \/ GenerateMixGain
  \/ GenerateReconGainStep

SpecWide == Init /\ [][NextWide]_vars

\* The mix-gain records of SpecMixGain: one subblock of parameter 1 with
\* every animation type, the point values around the ends of int16 and the
\* relative time around the end of uint8.
AnimationTypes ==
  {"ANIMATE_STEP", "ANIMATE_LINEAR", "ANIMATE_BEZIER", "ANIMATE_INVALID"}

PointValues == {-32769, -32768, 32767, 32768}

RelativeTimes == {0, 255, 256}

MixGainInputs ==
  {MetadataInput(
     1, 0, 1, 0, 1,
     << [SubblockInput(1, "good") EXCEPT
           !.mix_gain_parameter_data =
              [animation_type |-> animation_type,
               start_point_value |-> start_point_value,
               end_point_value |-> end_point_value,
               control_point_value |-> control_point_value,
               control_point_relative_time |-> control_point_relative_time]] >>) :
     animation_type \in AnimationTypes, start_point_value \in PointValues,
     end_point_value \in PointValues, control_point_value \in PointValues,
     control_point_relative_time \in RelativeTimes}

AddMetadataMixGainStep ==
  /\ num_added < MaxAddsMixGain
  /\ \E parameter_block_metadata \in MixGainInputs :
       AddMetadata(parameter_block_metadata)

NextMixGain == InitializeStep \/ AddMetadataMixGainStep \/ GenerateMixGain

SpecMixGain == Init /\ [][NextMixGain]_vars

\* The recon-gain records of SpecReconGain, all of parameter 4 (layers stereo
\* then 5.1, whose demixed labels take the bits 0, 2, 3 and 4).
ReconGainsOf(front, back) ==
  (0 :> front) @@ (2 :> front) @@ (3 :> back) @@ (4 :> back)

\* What the user declares for layer 1: the gains of a ratio 1/2, 1/4, 0 or 1
\* truncated or rounded, those of the ratios 1/2 and 1/4 mixed, and lists
\* that omit bit 0, declare a gain of 0 at bit 3 or declare bit 5 as well.
UserReconGainsLayer1 ==
  {ReconGainsOf(127, 127), ReconGainsOf(128, 128), ReconGainsOf(63, 63),
   ReconGainsOf(64, 64), ReconGainsOf(127, 63), ReconGainsOf(128, 64),
   ReconGainsOf(0, 0), ReconGainsOf(255, 255),
   (2 :> 127) @@ (3 :> 127) @@ (4 :> 127),
   (0 :> 127) @@ (2 :> 127) @@ (3 :> 0) @@ (4 :> 127),
   ReconGainsOf(127, 127) @@ (5 :> 127)}

\* What the user declares for layer 0: nothing, or a gain at bit 0.
UserReconGainsLayer0 == {<<>>, (0 :> 200)}

ReconGainSubblockInputs ==
  {[SubblockInput(1, "good") EXCEPT
      !.recon_gain_info_parameter_data =
         [recon_gains_for_layer |-> layers]] :
     layers \in
       {<< [recon_gain |-> layer0], [recon_gain |-> layer1] >> :
          layer0 \in UserReconGainsLayer0, layer1 \in UserReconGainsLayer1}
       \cup {<< [recon_gain |-> ReconGainsOf(127, 127)] >>}}

ReconGainInputs ==
  {MetadataInput(4, 0, 1, 0, 1, <<subblock>>) :
     subblock \in ReconGainSubblockInputs}

\* The frames of SpecReconGain: every demixed label has the ratio 0, 1, 1/2
\* or 1/4, or the front labels have 1/2 and the others 1/4.
Ratio(num, den) == [num |-> num, den |-> den]

ReconGainFramesInputs ==
  {[recon_gain |-> recon_gain, reverse |-> reverse] :
     recon_gain \in
       {[l \in DemixedLabels |-> ratio] :
          ratio \in {Ratio(0, 1), Ratio(1, 1), Ratio(1, 2), Ratio(1, 4)}}
       \cup {[l \in DemixedLabels |->
                IF l \in {"D_L3", "D_R3"} THEN Ratio(1, 2) ELSE Ratio(1, 4)]},
     reverse \in BOOLEAN}

\* The audio-element table with the given recon_gain_is_present_flag of the
\* two layers.
AudioElementsWithFlags(flags) ==
  (1 :> [AudioElements[1] EXCEPT !.recon_gain_is_present_flag = flags])

InitializeReconGainStep ==
  /\ num_added = 0
  /\ \E flags \in {<<0, 1>>, <<1, 1>>, <<0, 0>>},
        order \in IterationOrders(DOMAIN ParamDefinitions) :
       Initialize(TRUE, AudioElementsWithFlags(flags), ParamDefinitions, order)

AddMetadataReconGainStep ==
  /\ num_added < MaxAddsReconGain
  /\ \E parameter_block_metadata \in ReconGainInputs :
       AddMetadata(parameter_block_metadata)

GenerateReconGainFramesStep ==
  \E frames \in ReconGainFramesInputs : GenerateReconGain(frames)

NextReconGain ==
  \/ InitializeReconGainStep
  \/ AddMetadataReconGainStep
  \/ GenerateReconGainFramesStep

SpecReconGain == Init /\ [][NextReconGain]_vars

\* The recon-gain records of SpecReconGainWide, all of parameter 4: what the
\* user declares for layer 1 fits 8 bits (127, 255) or does not (256, 300,
\* 383); the map's values are 32-bit in the record, the gains uint8 in the
\* block.
UserReconGainsWide ==
  {ReconGainsOf(127, 127), ReconGainsOf(255, 255), ReconGainsOf(256, 256),
   ReconGainsOf(300, 300), ReconGainsOf(383, 383), ReconGainsOf(383, 127)}

ReconGainWideInputs ==
  {MetadataInput(
     4, 0, 1, 0, 1,
     << [SubblockInput(1, "good") EXCEPT
           !.recon_gain_info_parameter_data =
              [recon_gains_for_layer |->
                 << [recon_gain |-> <<>>], [recon_gain |-> layer1] >>]] >>) :
     layer1 \in UserReconGainsWide}

AddMetadataReconGainWideStep ==
  /\ num_added < MaxAddsReconGain
  /\ \E parameter_block_metadata \in ReconGainWideInputs :
       AddMetadata(parameter_block_metadata)

NextReconGainWide ==
  \/ InitializeReconGainStep
  \/ AddMetadataReconGainWideStep
  \/ GenerateReconGainFramesStep

SpecReconGainWide == Init /\ [][NextReconGainWide]_vars

\* The tables of SpecInitialize: the definitions above, definitions with an
\* extension parameter 6, and definitions whose recon-gain parameter refers
\* to an audio element 2 that the audio-element table does not have.
ExtensionDefinitions ==
  (1 :> ParamDefinitionMode1(kParameterDefinitionMixGain, 0)) @@
  (6 :> ParamDefinitionMode1(kParameterDefinitionReservedStart, 0))

DanglingDefinitions ==
  (1 :> ParamDefinitionMode1(kParameterDefinitionMixGain, 0)) @@
  (4 :> ParamDefinitionMode1(kParameterDefinitionReconGain, 2))

\* Definitions whose recon-gain parameter refers to the scene-based audio
\* element 3.
AmbisonicsDefinitions ==
  (1 :> ParamDefinitionMode1(kParameterDefinitionMixGain, 0)) @@
  (4 :> ParamDefinitionMode1(kParameterDefinitionReconGain, 3))

ParamDefinitionTables ==
  {ParamDefinitions, ExtensionDefinitions, DanglingDefinitions,
   AmbisonicsDefinitions}

\* The audio elements of SpecInitialize: the channel-based element 1 and a
\* scene-based element 3, whose config_ holds an AmbisonicsConfig.
AudioElementsOfInitialize ==
  AudioElements @@
  (3 :> [config_ |-> "AmbisonicsConfig", num_layers |-> 0,
         recon_gain_is_present_flag |-> <<>>,
         channel_numbers_for_layers |-> <<>>])

\* The shared map the generator is constructed on: empty, or holding an
\* entry of an extension type for parameter 6 or for parameter 1, or the
\* entry of the mix-gain parameter 1.
ReservedPerIdParameterMetadata ==
  [DefaultPerIdParameterMetadata EXCEPT
     !.param_definition =
        ParamDefinitionMode1(kParameterDefinitionReservedStart, 0),
     !.param_definition_type = kParameterDefinitionReservedStart]

MixGainPerIdParameterMetadata ==
  [DefaultPerIdParameterMetadata EXCEPT
     !.param_definition = ParamDefinitions[1],
     !.param_definition_type = kParameterDefinitionMixGain]

SharedMaps ==
  {<<>>, (6 :> ReservedPerIdParameterMetadata),
   (1 :> ReservedPerIdParameterMetadata),
   (1 :> MixGainPerIdParameterMetadata)}

InitShared ==
  /\ \E metadata_map \in SharedMaps : Constructed(metadata_map)
  /\ HelpersNotCalled

InitializeTablesStep ==
  /\ num_added = 0
  /\ \E has_ia_sequence_header \in BOOLEAN,
        param_definitions \in ParamDefinitionTables :
       \E order \in IterationOrders(DOMAIN param_definitions) :
         Initialize(has_ia_sequence_header, AudioElementsOfInitialize,
                    param_definitions, order)

\* The records of SpecInitialize: one well-formed record per parameter id,
\* the stray id 5 and the extension id 6 included.
InitializeInputs ==
  {MetadataInput(parameter_id, 0, 1, 0, 1, <<SubblockInput(1, "good")>>) :
     parameter_id \in {1, 4, 5, 6}}

AddMetadataInitializeStep ==
  /\ num_added < MaxAddsInitialize
  /\ \E parameter_block_metadata \in InitializeInputs :
       AddMetadata(parameter_block_metadata)

NextInitialize ==
  \/ InitializeTablesStep
  \/ AddMetadataInitializeStep
  \/ GenerateDemixing
  \/ GenerateMixGain
  \/ GenerateReconGainStep

SpecInitialize == InitShared /\ [][NextInitialize]_vars

\* The FLAC encoder on its own: frames are encoded, libflac writes them in
\* any order and grouping, and FinalizeFrames is called at any time.
EncodeAudioFrameStep ==
  \E valid \in BOOLEAN, process \in {"ok", "early_write", "error"} :
    EncodeAudioFrame(valid, process)

NextFlac ==
  \/ EncodeAudioFrameStep
  \/ LibFlacWriteCallbackStep
  \/ FinalizeFramesStep

SpecFlac == Init /\ [][NextFlac]_vars

\* The FLAC encoder up to the return of FinalizeAndFlush: frames are encoded
\* and libflac writes them until FinalizeAndFlush is called; after
\* FLAC__stream_encoder_finish libflac makes no callback. The thread inside
\* FinalizeAndFlush keeps running.
EncodeBeforeFlush == finalize_and_flush = "idle" /\ EncodeAudioFrameStep

WriteBeforeFlush == finalize_and_flush = "idle" /\ LibFlacWriteCallbackStep

NextFlacFlush ==
  \/ EncodeBeforeFlush
  \/ WriteBeforeFlush
  \/ FinalizeAndFlush
  \/ FinalizeAndFlushPoll

SpecFlacFlush ==
  Init /\ [][NextFlacFlush]_vars /\ WF_vars(FinalizeAndFlushPoll)

\* The largest surround count of the layouts given to FindDemixedChannels.
MaxSurround == 9

\* FindDemixedChannels on its own: every pair of an accumulated layout and a
\* layer layout with up to MaxSurround surround channels and 0, 2 or 4
\* height channels.
ChannelNumbersInputs ==
  {[surround |-> surround, height |-> height, lfe |-> 1] :
     surround \in 0..MaxSurround, height \in {0, 2, 4}}

InitFindDemixedChannels ==
  /\ Constructed(<<>>)
  /\ find_demixed_channels_call
       \in {FindDemixedChannelsArguments(accumulated, layer) :
              accumulated \in ChannelNumbersInputs,
              layer \in ChannelNumbersInputs}
  /\ convert_recon_gains_call = ConvertReconGainsAndFlagsArguments(<<>>, <<>>)
  /\ recon_gain_subblock_call = [called |-> FALSE]
  /\ compute_recon_gains_call = [called |-> FALSE]

FindDemixedChannelsStep ==
  /\ ~find_demixed_channels_call.called
  /\ \E found \in {FindDemixedChannels(
                     find_demixed_channels_call.accumulated_channels,
                     find_demixed_channels_call.layer_channels)} :
       /\ find_demixed_channels_call' =
            [find_demixed_channels_call EXCEPT
               !.called = TRUE,
               !.status = found.status,
               !.demixed_channel_labels = found.demixed_channel_labels]
       /\ status' = found.status
  /\ last_call' = "FindDemixedChannels"
  /\ UNCHANGED <<generator_state, flac_state, convert_recon_gains_call,
                 recon_gain_subblock_call, compute_recon_gains_call>>

SpecFindDemixedChannels ==
  InitFindDemixedChannels /\ [][FindDemixedChannelsStep]_vars

\* ConvertReconGainsAndFlags on its own: label_to_recon_gain holds up to
\* MaxLabels labels, those of the function's table and three it does not
\* know, with the gain 0, 1/2 or 1, iterated in either order.
MaxLabels == 2

LabelInputs ==
  DemixedLabels
    \cup {"D_L5", "D_R5", "D_Ltf4", "D_Rtf4", "D_L2", "D_C", "D_LFE"}

LabelToReconGainInputs ==
  UNION {[labels -> {Ratio(0, 1), Ratio(1, 2), Ratio(1, 1)}] :
           labels \in {l \in SUBSET LabelInputs : Cardinality(l) <= MaxLabels}}

InitConvertReconGainsAndFlags ==
  /\ Constructed(<<>>)
  /\ find_demixed_channels_call =
       FindDemixedChannelsArguments(NoChannels, NoChannels)
  /\ convert_recon_gains_call
       \in {ConvertReconGainsAndFlagsArguments(gains, <<>>) :
              gains \in LabelToReconGainInputs}
  /\ recon_gain_subblock_call = [called |-> FALSE]
  /\ compute_recon_gains_call = [called |-> FALSE]

ConvertReconGainsAndFlagsStep ==
  /\ ~convert_recon_gains_call.called
  /\ \E order \in IterationOrders(
                    DOMAIN convert_recon_gains_call.label_to_recon_gain) :
       \E converted \in
            {ConvertReconGainsAndFlags(
               order, convert_recon_gains_call.label_to_recon_gain,
               ZeroReconGains, 0)} :
         /\ convert_recon_gains_call' =
              [convert_recon_gains_call EXCEPT
                 !.called = TRUE,
                 !.order = order,
                 !.status = converted.status,
                 !.computed_recon_gains = converted.computed_recon_gains,
                 !.computed_recon_gain_flag =
                    converted.computed_recon_gain_flag]
         /\ status' = converted.status
  /\ last_call' = "ConvertReconGainsAndFlags"
  /\ UNCHANGED <<generator_state, flac_state, find_demixed_channels_call,
                 recon_gain_subblock_call, compute_recon_gains_call>>

SpecConvertReconGainsAndFlags ==
  InitConvertReconGainsAndFlags /\ [][ConvertReconGainsAndFlagsStep]_vars

\* GenerateReconGainSubblock on its own, for what it reads of the user's
\* record. What the user declares for a layer: nothing, pairs at positions
\* below 12, or a pair at position 12, 13, 32 or 40.
UserLayerInputs ==
  {<<>>, (0 :> 127), ReconGainsOf(127, 127), (11 :> 127), (12 :> 127),
   (0 :> 127) @@ (13 :> 1), (32 :> 127), (0 :> 127) @@ (40 :> 7)}

\* The number of layer records of a user's record.
MaxLayerRecords == 2

\* An audio element of one layer (stereo) or two (stereo, 5.1), the user's
\* record with 0..MaxLayerRecords layer records, and the frames.
GenerateReconGainSubblockArguments ==
  {[called |-> FALSE,
    override_computed_recon_gains |-> override,
    num_layers |-> num_layers,
    recon_gain_is_present_flags |-> SubSeq(<<FALSE, TRUE>>, 1, num_layers),
    channel_numbers_for_layers |->
      SubSeq(AudioElements[1].channel_numbers_for_layers, 1, num_layers),
    metadata |-> [recon_gains_for_layer |->
                    [l \in 1..n |-> [recon_gain |-> layers[l]]]],
    frames |-> [recon_gain |-> [label \in DemixedLabels |-> Ratio(1, den)],
                reverse |-> FALSE],
    layers_read |-> {}, bit_positions |-> {}, undefined |-> FALSE,
    status |-> "None"] :
     override \in BOOLEAN, num_layers \in 1..2, den \in {2, 4},
     n \in 0..MaxLayerRecords,
     layers \in [1..MaxLayerRecords -> UserLayerInputs]}

\* The layers (0-based) for which the loop of GenerateReconGainSubblock has
\* undefined behaviour: user_recon_gains_layers has no record at the index,
\* or the record declares a bit_position that is no index of the 12 entries
\* of user_recon_gains and recon_gain.
UndefinedLayers(call) ==
  {layer_index \in 0..(call.num_layers - 1) :
     \/ layer_index + 1 > Len(call.metadata.recon_gains_for_layer)
     \/ \E bit_position \in
             DOMAIN call.metadata.recon_gains_for_layer[layer_index + 1]
                      .recon_gain :
          bit_position \notin 0..11}

\* The status of the loop of GenerateReconGainSubblock over the first
\* `layers` layers.
ReconGainLayersBefore(call, layers) ==
  ReconGainLayers(
    0, NoChannels,
    [l \in 1..layers |->
       [recon_gain_flag |-> 0, recon_gain |-> ZeroReconGains]],
    [override_computed_recon_gains |-> call.override_computed_recon_gains,
     num_layers |-> layers,
     recon_gain_is_present_flags |-> call.recon_gain_is_present_flags,
     channel_numbers_for_layers |-> call.channel_numbers_for_layers,
     user_recon_gains_layers |-> call.metadata.recon_gains_for_layer,
     frames |-> call.frames]).status

\* What a call of GenerateReconGainSubblock reads: the layer indices at which
\* it reads user_recon_gains_layers, the bit positions with which it indexes
\* user_recon_gains and recon_gain and shifts the flag, whether it reaches a
\* layer with undefined behaviour, and the status it returns when it does
\* not.
GenerateReconGainSubblockReads(call) ==
  LET records == call.metadata.recon_gains_for_layer
      bad == UndefinedLayers(call)
      first_bad == IF bad = {} THEN call.num_layers
                   ELSE CHOOSE k \in bad : \A other \in bad : k <= other
      layers_read ==
        {layer_index \in 0..(call.num_layers - 1) :
           /\ layer_index <= first_bad
           /\ ReconGainLayersBefore(call, layer_index) = kOk}
  IN
  IF call.num_layers > 1 /\ call.num_layers # Len(records)
  THEN [layers_read |-> {}, bit_positions |-> {}, undefined |-> FALSE,
        status |-> kInvalidArgument]
  ELSE [layers_read |-> layers_read,
        bit_positions |->
          UNION {DOMAIN records[layer_index + 1].recon_gain :
                   layer_index \in {l \in layers_read : l + 1 <= Len(records)}},
        undefined |-> first_bad \in layers_read,
        status |-> ReconGainLayersBefore(call, first_bad)]

InitGenerateReconGainSubblock ==
  /\ Constructed(<<>>)
  /\ find_demixed_channels_call =
       FindDemixedChannelsArguments(NoChannels, NoChannels)
  /\ convert_recon_gains_call = ConvertReconGainsAndFlagsArguments(<<>>, <<>>)
  /\ recon_gain_subblock_call \in GenerateReconGainSubblockArguments
  /\ compute_recon_gains_call = [called |-> FALSE]

\* A call that reaches a layer with undefined behaviour aborts the process or
\* goes on and returns either status.
GenerateReconGainSubblockStep ==
  /\ ~recon_gain_subblock_call.called
  /\ \E reads \in {GenerateReconGainSubblockReads(recon_gain_subblock_call)} :
       \E returned \in IF reads.undefined
                       THEN {"Aborted", kOk, kInvalidArgument}
                       ELSE {reads.status} :
         /\ recon_gain_subblock_call' =
              [recon_gain_subblock_call EXCEPT
                 !.called = TRUE,
                 !.layers_read = reads.layers_read,
                 !.bit_positions = reads.bit_positions,
                 !.undefined = reads.undefined,
                 !.status = returned]
         /\ status' = returned
  /\ last_call' = "GenerateReconGainSubblock"
  /\ UNCHANGED <<generator_state, flac_state, find_demixed_channels_call,
                 convert_recon_gains_call, compute_recon_gains_call>>

SpecGenerateReconGainSubblock ==
  InitGenerateReconGainSubblock /\ [][GenerateReconGainSubblockStep]_vars

\* ComputeReconGains on its own, for layer 1 of an audio element: every
\* transition between two of the layouts mono, stereo, 3.1.2, 5.1, 5.1.2,
\* 7.1 and 7.1.4 in which neither the surround nor the height count
\* decreases, the layer flagged or not, and the frames of SpecReconGain.
LayoutInputs ==
  {[surround |-> 1, height |-> 0, lfe |-> 0],
   [surround |-> 2, height |-> 0, lfe |-> 0],
   [surround |-> 3, height |-> 2, lfe |-> 1],
   [surround |-> 5, height |-> 0, lfe |-> 1],
   [surround |-> 5, height |-> 2, lfe |-> 1],
   [surround |-> 7, height |-> 0, lfe |-> 1],
   [surround |-> 7, height |-> 4, lfe |-> 1]}

ComputeReconGainsArguments ==
  {[called |-> FALSE, layer_index |-> 1, layer_channels |-> transition[2],
    accumulated_channels |-> transition[1],
    recon_gain |-> frames.recon_gain,
    recon_gain_is_present_flags |-> <<FALSE, flag>>,
    reverse |-> FALSE, status |-> "None",
    computed_recon_gains |-> ZeroReconGains,
    computed_recon_gain_flag |-> 0] :
     transition \in {t \in LayoutInputs \X LayoutInputs :
                       /\ t[2] # t[1]
                       /\ t[2].surround >= t[1].surround
                       /\ t[2].height >= t[1].height},
     frames \in ReconGainFramesInputs, flag \in BOOLEAN}

InitComputeReconGains ==
  /\ Constructed(<<>>)
  /\ find_demixed_channels_call =
       FindDemixedChannelsArguments(NoChannels, NoChannels)
  /\ convert_recon_gains_call = ConvertReconGainsAndFlagsArguments(<<>>, <<>>)
  /\ recon_gain_subblock_call = [called |-> FALSE]
  /\ compute_recon_gains_call \in ComputeReconGainsArguments

\* A call of ComputeReconGains with the arguments drawn; label_to_recon_gain
\* is iterated in one of two orders. The call may be repeated.
ComputeReconGainsStep ==
  /\ \E reverse \in BOOLEAN :
       \E computed \in {ComputeReconGains(
                          compute_recon_gains_call.layer_index,
                          compute_recon_gains_call.layer_channels,
                          compute_recon_gains_call.accumulated_channels,
                          [recon_gain |-> compute_recon_gains_call.recon_gain,
                           reverse |-> reverse],
                          compute_recon_gains_call
                            .recon_gain_is_present_flags)} :
         /\ compute_recon_gains_call' =
              [compute_recon_gains_call EXCEPT
                 !.called = TRUE,
                 !.reverse = reverse,
                 !.status = computed.status,
                 !.computed_recon_gains = computed.computed_recon_gains,
                 !.computed_recon_gain_flag =
                    computed.computed_recon_gain_flag]
         /\ status' = computed.status
  /\ last_call' = "ComputeReconGains"
  /\ UNCHANGED <<generator_state, flac_state, find_demixed_channels_call,
                 convert_recon_gains_call, recon_gain_subblock_call>>

SpecComputeReconGains ==
  InitComputeReconGains /\ [][ComputeReconGainsStep]_vars

----------------------------------------------------------------------------
(* Properties.                                                             *)

\* The duration that applies to a record: its definition's in mode 0, its own
\* in mode 1.
DurationOf(metadata) ==
  LET d == ParamDefinitions[metadata.parameter_id]
  IN IF d.param_definition_mode_ = 1 THEN metadata.duration ELSE d.duration_

\* The blocks the last Generate* call made, in order.
BlocksOfLastCall ==
  LET made == SelectSeq(log, LAMBDA e : e.status = kOk)
  IN [i \in 1..Len(made) |-> made[i].block]

LastCallWasGenerate == last_call \in GenerateCalls

\* C1: a record whose start_timestamp differs from the next expected start of
\* its parameter_id (0 before the first block of the id, the end of the id's
\* previous block afterwards) is rejected with InvalidArgument and leaves the
\* expected start alone; a record that is emitted gets start_timestamp = its
\* claimed start and end_timestamp = start + duration, and the next expected
\* start of its parameter_id becomes that end.
C1_TimestampContract ==
  LastCallWasGenerate =>
    /\ \A i \in DOMAIN log :
         LET e == log[i]
             md == e.from.metadata
         IN
         /\ (md.start_timestamp # e.expected_start \/
             md.start_timestamp # e.prev_end) =>
              /\ e.status = kInvalidArgument
              /\ e.next_start = e.expected_start
         /\ e.status = kOk =>
              /\ e.block.start_timestamp = md.start_timestamp
              /\ e.block.end_timestamp = md.start_timestamp + DurationOf(md)
              /\ e.next_start = e.block.end_timestamp
         /\ (\A j \in DOMAIN log :
               j > i => log[j].from.metadata.parameter_id # md.parameter_id)
              => global_timing_module[md.parameter_id] = e.next_start
    /\ Len(BlocksOfLastCall) <= Len(output_parameter_blocks)
    /\ SubSeq(output_parameter_blocks,
              Len(output_parameter_blocks) - Len(BlocksOfLastCall) + 1,
              Len(output_parameter_blocks)) = BlocksOfLastCall

\* C1 witness: in one call a block of positive duration was emitted for a
\* parameter_id and a later record of the same id, claiming another start
\* than that block's end, was rejected.
C1_Witness ==
  /\ LastCallWasGenerate
  /\ \E i, j \in DOMAIN log :
       /\ i < j
       /\ log[i].status = kOk
       /\ log[i].block.end_timestamp > log[i].block.start_timestamp
       /\ log[j].from.metadata.parameter_id = log[i].from.metadata.parameter_id
       /\ log[j].from.metadata.start_timestamp # log[i].block.end_timestamp
       /\ log[j].status = kInvalidArgument

\* C2: for every parameter_id the blocks emitted for it tile [0, total) in
\* emission order: the first starts at 0 and each next one starts where the
\* one before it ends.
C2_Tiling ==
  \A parameter_id \in ParameterIds :
    LET of == BlocksOf(output_parameter_blocks, parameter_id) IN
    \A i \in DOMAIN of :
      /\ of[i].start_timestamp = (IF i = 1 THEN 0 ELSE of[i - 1].end_timestamp)
      /\ of[i].end_timestamp >= of[i].start_timestamp

\* C2 witness: two blocks of positive duration were emitted for one
\* parameter_id in two different calls.
C2_Witness ==
  \E parameter_id \in ParameterIds :
    LET of == BlocksOf(output_parameter_blocks, parameter_id) IN
    /\ Len(of) >= 2
    /\ of[1].end_timestamp > 0
    /\ of[2].end_timestamp > of[2].start_timestamp
    /\ Len(log) = 1


TypeOfCall(call) ==
  CASE call = "GenerateDemixing" -> kParameterDefinitionDemixing
    [] call = "GenerateMixGain" -> kParameterDefinitionMixGain
    [] call = "GenerateReconGain" -> kParameterDefinitionReconGain

\* C3: a Generate* call that returns an error leaves the caller's output list
\* as it was before the call.
C3_NoPartialOutput ==
  [][(last_call' \in GenerateCalls /\ status' # kOk)
       => output_parameter_blocks' = output_parameter_blocks]_vars

\* C4: a block of a demixing or recon-gain parameter has exactly one subblock:
\* none is emitted with another number of subblocks, and a record visited
\* whose partitioning has another number of subblocks is rejected with
\* InvalidArgument.
C4_ExactlyOneSubblock ==
  /\ \A i \in DOMAIN output_parameter_blocks :
       LET b == output_parameter_blocks[i] IN
       ParamDefinitions[b.obu.parameter_id].type
           \in {kParameterDefinitionDemixing, kParameterDefinitionReconGain}
         => Len(b.obu.subblocks_) = 1
  /\ LastCallWasGenerate =>
       \A i \in DOMAIN log :
         (/\ TypeOfCall(last_call)
               \in {kParameterDefinitionDemixing, kParameterDefinitionReconGain}
          /\ log[i].timing_ok
          /\ log[i].num_subblocks # 1)
           => log[i].status = kInvalidArgument

\* The uids of the queue entries a list of blocks or of log entries was made
\* from.
UidsOf(entries) == [i \in DOMAIN entries |-> entries[i].from.uid]

\* C5: a successful Generate* call appends one block per record visited, in
\* the order the records were added, and leaves none of them queued; no record
\* yields a block twice.
C5_OneBlockPerRecord ==
  /\ \A i, j \in DOMAIN output_parameter_blocks :
       i # j => output_parameter_blocks[i].from.uid
                  # output_parameter_blocks[j].from.uid
  /\ (LastCallWasGenerate /\ status = kOk) =>
       /\ \A i \in DOMAIN log : log[i].status = kOk
       /\ \A i, j \in DOMAIN log : i < j => log[i].from.uid < log[j].from.uid
       /\ Len(log) <= Len(output_parameter_blocks)
       /\ UidsOf(SubSeq(output_parameter_blocks,
                        Len(output_parameter_blocks) - Len(log) + 1,
                        Len(output_parameter_blocks))) = UidsOf(log)
       /\ typed_proto_metadata_[TypeOfCall(last_call)] = <<>>

\* C6: once GenerateDemixing, GenerateMixGain and GenerateReconGain have all
\* been called after the last AddMetadata, the three queues are empty.
C6_QueuesDrained ==
  unit_calls = GenerateCalls =>
    \A type \in ParameterDefinitionTypes : typed_proto_metadata_[type] = <<>>

\* C7: the duration AddMetadata returned for a record is the definition's
\* duration in mode 0 and the record's in mode 1, and it is the length
\* end_timestamp - start_timestamp of the block made from the record.
C7_Duration ==
  /\ \A type \in AllQueueTypes :
       \A i \in DOMAIN typed_proto_metadata_[type] :
         LET e == typed_proto_metadata_[type][i]
         IN e.duration = DurationOf(e.metadata)
  /\ \A i \in DOMAIN output_parameter_blocks :
       LET b == output_parameter_blocks[i] IN
       /\ b.from.duration = DurationOf(b.from.metadata)
       /\ b.end_timestamp - b.start_timestamp = b.from.duration

\* C7 witness: a block was emitted for a mode-0 parameter from a record whose
\* own duration differs from the definition's, and a record of a mode-1
\* parameter is queued.
C7_Witness ==
  /\ \E i \in DOMAIN output_parameter_blocks :
       LET b == output_parameter_blocks[i] IN
       /\ ParamDefinitions[b.obu.parameter_id].param_definition_mode_ = 0
       /\ b.from.metadata.duration
            # ParamDefinitions[b.obu.parameter_id].duration_
  /\ \E type \in AllQueueTypes :
       \E i \in DOMAIN typed_proto_metadata_[type] :
         LET e == typed_proto_metadata_[type][i] IN
         /\ ParamDefinitions[e.metadata.parameter_id].param_definition_mode_ = 1
         /\ e.duration > 0


\* C8: the partitioning of an emitted block is the record's (duration,
\* constant_subblock_duration, num_subblocks) in mode 1 and the definition's
\* in mode 0, the block has that many subblock payloads, one per subblock
\* record, and a record visited whose number of subblock records differs from
\* the partitioning's num_subblocks is rejected with InvalidArgument.
C8_Partitioning ==
  /\ \A i \in DOMAIN output_parameter_blocks :
       LET b == output_parameter_blocks[i]
           md == b.from.metadata
           d == ParamDefinitions[b.obu.parameter_id]
       IN
       /\ d.param_definition_mode_ = 1 =>
            /\ b.obu.duration = md.duration
            /\ b.obu.constant_subblock_duration = md.constant_subblock_duration
            /\ b.obu.num_subblocks = md.num_subblocks
       /\ d.param_definition_mode_ = 0 =>
            /\ b.obu.duration = d.duration_
            /\ b.obu.constant_subblock_duration = d.constant_subblock_duration_
            /\ b.obu.num_subblocks = d.num_subblocks_
       /\ Len(b.obu.subblocks_) = b.obu.num_subblocks
       /\ Len(md.subblocks) = b.obu.num_subblocks
       /\ \A k \in DOMAIN b.obu.subblocks_ : b.obu.subblocks_[k] # NoParamData
  /\ LastCallWasGenerate =>
       \A i \in DOMAIN log :
         (/\ log[i].timing_ok
          /\ Len(log[i].from.metadata.subblocks) # log[i].num_subblocks)
           => log[i].status = kInvalidArgument

\* C8 witness: a mode-1 block with two subblocks and a constant subblock
\* duration was emitted.
C8_Witness ==
  \E i \in DOMAIN output_parameter_blocks :
    LET b == output_parameter_blocks[i] IN
    /\ b.obu.param_definition_mode = 1
    /\ b.obu.num_subblocks = 2
    /\ b.obu.constant_subblock_duration > 0

\* C9: the subblock durations of an emitted block are set from the record's
\* subblocks exactly when the parameter is of mode 1 and the block's
\* constant_subblock_duration is 0: then every subblock has the duration of
\* its subblock record, otherwise none is set.
C9_SubblockDurationEmission ==
  \A i \in DOMAIN output_parameter_blocks :
    LET b == output_parameter_blocks[i]
        md == b.from.metadata
        included ==
          /\ ParamDefinitions[b.obu.parameter_id].param_definition_mode_ = 1
          /\ b.obu.constant_subblock_duration = 0
    IN
    \A k \in DOMAIN b.obu.subblock_duration_set :
      /\ b.obu.subblock_duration_set[k] <=> included
      /\ included =>
           b.obu.subblock_durations[k] = md.subblocks[k].subblock_duration

\* C9 witness: a mode-1 block with two subblocks of explicit, different
\* durations was emitted.
C9_Witness ==
  \E i \in DOMAIN output_parameter_blocks :
    LET b == output_parameter_blocks[i] IN
    /\ b.obu.param_definition_mode = 1
    /\ b.obu.constant_subblock_duration = 0
    /\ b.obu.num_subblocks = 2
    /\ b.obu.subblock_duration_set = <<TRUE, TRUE>>
    /\ b.obu.subblock_durations[1] # b.obu.subblock_durations[2]

\* The sum of the subblock durations of a block.
SubblockDurationSum(obu) ==
  SumSeq([i \in 1..obu.num_subblocks |-> GetSubblockDuration(obu, i - 1)])

\* C10: the subblock durations of every emitted block add up to its duration
\* end_timestamp - start_timestamp.
C10_SubblockSum ==
  \A i \in DOMAIN output_parameter_blocks :
    LET b == output_parameter_blocks[i]
    IN SubblockDurationSum(b.obu) = b.end_timestamp - b.start_timestamp

----------------------------------------------------------------------------
(* Subblock payloads.                                                      *)

InInt16(v) == v >= -32768 /\ v <= 32767
InUint8(v) == v >= 0 /\ v <= 255

\* The MixGainParameterData a user animation should be transcribed to, and
\* whether every value of the chosen animation is in range.
ExpectedMixGain(m) ==
  CASE m.animation_type = "ANIMATE_STEP" ->
         [in_range |-> InInt16(m.start_point_value),
          param_data |-> [kind |-> "mix_gain",
                          animation_type |-> "kAnimateStep",
                          start_point_value |-> m.start_point_value]]
    [] m.animation_type = "ANIMATE_LINEAR" ->
         [in_range |-> InInt16(m.start_point_value)
                       /\ InInt16(m.end_point_value),
          param_data |-> [kind |-> "mix_gain",
                          animation_type |-> "kAnimateLinear",
                          start_point_value |-> m.start_point_value,
                          end_point_value |-> m.end_point_value]]
    [] m.animation_type = "ANIMATE_BEZIER" ->
         [in_range |-> /\ InInt16(m.start_point_value)
                       /\ InInt16(m.end_point_value)
                       /\ InInt16(m.control_point_value)
                       /\ InUint8(m.control_point_relative_time),
          param_data |-> [kind |-> "mix_gain",
                          animation_type |-> "kAnimateBezier",
                          start_point_value |-> m.start_point_value,
                          end_point_value |-> m.end_point_value,
                          control_point_value |-> m.control_point_value,
                          control_point_relative_time |->
                            m.control_point_relative_time]]
    [] OTHER -> [in_range |-> FALSE, param_data |-> NoParamData]

\* C11: a mix-gain subblock is generated iff every point value of the chosen
\* animation is in int16 (and, for Bezier, the relative time in uint8) and the
\* animation type is step, linear or bezier; the emitted values and animation
\* type are then the user's; otherwise the call fails with InvalidArgument.
C11_MixGainRangeCheck ==
  \A i \in DOMAIN log :
    LET e == log[i]
        m == e.from.metadata.subblocks[1].mix_gain_parameter_data
        expected == ExpectedMixGain(m)
    IN (/\ last_call = "GenerateMixGain"
        /\ e.timing_ok
        /\ Len(e.from.metadata.subblocks) = e.num_subblocks
        /\ e.num_subblocks = 1)
       => /\ (e.status = kOk) <=> expected.in_range
          /\ e.status = kOk =>
               e.block.obu.subblocks_[1] = expected.param_data
          /\ e.status # kOk => e.status = kInvalidArgument

\* A linear animation with both ends at the ends of int16 was emitted.
C11_Witness ==
  /\ last_call = "GenerateMixGain"
  /\ \E i \in DOMAIN log :
       /\ log[i].status = kOk
       /\ log[i].block.obu.subblocks_[1].animation_type = "kAnimateLinear"
       /\ log[i].block.obu.subblocks_[1].start_point_value = -32768
       /\ log[i].block.obu.subblocks_[1].end_point_value = 32767

\* The entries of the log that a GenerateReconGain call made for records
\* that reached GenerateReconGainSubblock with as many layer records as the
\* audio element has layers.
ReconGainEntries ==
  IF last_call # "GenerateReconGain" THEN {}
  ELSE {i \in DOMAIN log :
          LET e == log[i]
              per_id_metadata ==
                parameter_id_to_metadata_[e.from.metadata.parameter_id]
          IN /\ e.timing_ok
             /\ e.num_subblocks = 1
             /\ Len(e.from.metadata.subblocks) = 1
             /\ Len(e.from.metadata.subblocks[1].recon_gain_info_parameter_data
                      .recon_gains_for_layer) = per_id_metadata.num_layers}

\* The per-id metadata of the record of a log entry, and what the user
\* declared for its layers.
PerIdMetadataOf(e) == parameter_id_to_metadata_[e.from.metadata.parameter_id]

UserLayersOf(e) ==
  e.from.metadata.subblocks[1].recon_gain_info_parameter_data
    .recon_gains_for_layer

\* The recon-gain element that holds exactly the declared pairs `user`.
IsVerbatim(element, user) ==
  /\ element.recon_gain_flag < Pow2(12)
  /\ \A i \in 0..11 :
       /\ BitIsSet(element.recon_gain_flag, i) <=> i \in DOMAIN user
       /\ element.recon_gain[i] = IF i \in DOMAIN user THEN user[i] ELSE 0

ComputedOf(e, l) ==
  LET per_id_metadata == PerIdMetadataOf(e)
      channels == per_id_metadata.channel_numbers_for_layers
  IN ComputeReconGains(
       l - 1, channels[l],
       IF l = 1 THEN [surround |-> 0, height |-> 0, lfe |-> 0]
       ELSE channels[l - 1],
       e.frames, per_id_metadata.recon_gain_is_present_flags)

\* The user's flag and 12 values of a layer are the computed ones.
UserMatchesComputed(user, computed) ==
  \A i \in 0..11 :
    /\ BitIsSet(computed.computed_recon_gain_flag, i) <=> i \in DOMAIN user
    /\ computed.computed_recon_gains[i] =
         IF i \in DOMAIN user THEN user[i] ELSE 0

\* The layers of the record of a log entry that have recon_gain_is_present
\* set and whose declared flag or values differ from the computed ones.
MismatchedLayers(e) ==
  {l \in 1..PerIdMetadataOf(e).num_layers :
     /\ PerIdMetadataOf(e).recon_gain_is_present_flags[l]
     /\ \/ ComputedOf(e, l).status # kOk
        \/ ~UserMatchesComputed(UserLayersOf(e)[l].recon_gain,
                                ComputedOf(e, l))}

Round255(ratio) == (2 * 255 * ratio.num + ratio.den) \div (2 * ratio.den)

\* The demixed labels of layer l (from 1) of the record of a log entry.
DemixedLabelsOf(e, l) ==
  LET channels == PerIdMetadataOf(e).channel_numbers_for_layers
  IN IF l = 1 THEN {}
     ELSE Range(FindDemixedChannels(channels[l - 1], channels[l])
                  .demixed_channel_labels)

\* C14: the 8-bit value computed for a demixed label of ratio r is
\* round(r * 255) (1/2 gives 128, 1/4 gives 64). A block emitted without the
\* override carries the computed values, so the value at every demixed
\* label's bit position is the rounded one.
C14_RoundedScaling ==
  ~override_computed_recon_gains_ =>
    \A i \in ReconGainEntries :
      LET e == log[i] IN
      e.status = kOk =>
        \A l \in 1..PerIdMetadataOf(e).num_layers :
          PerIdMetadataOf(e).recon_gain_is_present_flags[l] =>
            \A label \in DemixedLabelsOf(e, l) :
              e.block.obu.subblocks_[1].recon_gain_elements[l]
                .recon_gain[ReconGainBitPosition(label)]
              = Round255(e.frames.recon_gain[label])

\* The recon-gain elements of the emitted blocks, each with whether its
\* layer has recon_gain_is_present set.
EmittedReconGainElements ==
  {[element |-> output_parameter_blocks[j].obu.subblocks_[s]
                  .recon_gain_elements[l],
    is_present |->
      parameter_id_to_metadata_[output_parameter_blocks[j].obu.parameter_id]
        .recon_gain_is_present_flags[l]] :
     <<j, s, l>> \in
       {x \in (DOMAIN output_parameter_blocks) \X (1..MaxSubblocks) \X (1..2) :
          /\ x[2] \in DOMAIN output_parameter_blocks[x[1]].obu.subblocks_
          /\ output_parameter_blocks[x[1]].obu.subblocks_[x[2]].kind
               = "recon_gain"
          /\ x[3] \in DOMAIN output_parameter_blocks[x[1]].obu
                               .subblocks_[x[2]].recon_gain_elements}}

\* C15: in every recon-gain element of every emitted block, bit i of
\* recon_gain_flag is set if and only if entry i of the recon-gain array is
\* nonzero.
C15_FlagIffNonzero ==
  \A r \in EmittedReconGainElements :
    \A i \in 0..11 :
      BitIsSet(r.element.recon_gain_flag, i) <=> r.element.recon_gain[i] # 0

\* C16: a layer whose recon_gain_is_present is false has recon_gain_flag 0
\* and all 12 values 0 in every emitted block, whatever the user declared
\* for it.
C16_AbsentLayerEmpty ==
  \A r \in EmittedReconGainElements :
    ~r.is_present =>
      /\ r.element.recon_gain_flag = 0
      /\ \A i \in 0..11 : r.element.recon_gain[i] = 0

----------------------------------------------------------------------------
(* Initialize, AddMetadata and the order of the calls.                     *)

\* C17: Initialize, given an IA Sequence Header and a recon-gain parameter
\* definition whose audio_element_id is not in the audio-element table,
\* fails with InvalidArgument.
C17_DanglingAudioElement ==
  (/\ initialize_call.called
   /\ initialize_call.has_ia_sequence_header
   /\ \E parameter_id \in DOMAIN initialize_call.param_definitions :
        LET param_definition ==
              initialize_call.param_definitions[parameter_id]
        IN /\ param_definition.type = kParameterDefinitionReconGain
           /\ param_definition.audio_element_id_
                \notin DOMAIN initialize_call.audio_elements)
  => initialize_call.status = kInvalidArgument

\* C18: unsupported parameter types are rejected by Initialize, so after a
\* successful Initialize no record of a reserved or extension type is queued
\* and no block of one is emitted.
C18_UnsupportedTypeRejected ==
  (initialize_call.called /\ initialize_call.status = kOk)
  => /\ \A type \in AllQueueTypes \ ParameterDefinitionTypes :
          typed_proto_metadata_[type] = <<>>
     /\ \A i \in DOMAIN output_parameter_blocks :
          parameter_id_to_metadata_[
            output_parameter_blocks[i].obu.parameter_id]
            .param_definition_type \in ParameterDefinitionTypes

\* C19: an AddMetadata call that fails returns InvalidArgument and leaves the
\* queues unchanged, one that succeeds queues a record whose parameter id
\* has per-id metadata, and so every queued record's parameter id is in the
\* per-id metadata map when a Generate* call looks it up.
C19_StrayMetadataRejected ==
  [][/\ (last_call' = "AddMetadata" /\ status' # kOk)
        => /\ status' = kInvalidArgument
           /\ typed_proto_metadata_' = typed_proto_metadata_
     /\ (last_call' = "AddMetadata" /\ status' = kOk)
        => \E type \in AllQueueTypes :
             /\ Len(typed_proto_metadata_'[type])
                  = Len(typed_proto_metadata_[type]) + 1
             /\ typed_proto_metadata_'[type][
                  Len(typed_proto_metadata_'[type])].metadata.parameter_id
                  \in DOMAIN parameter_id_to_metadata_
     /\ \A type \in AllQueueTypes :
          \A i \in DOMAIN typed_proto_metadata_'[type] :
            typed_proto_metadata_'[type][i].metadata.parameter_id
              \in DOMAIN parameter_id_to_metadata_'
    ]_vars

\* After a successful Initialize and a queued record, AddMetadata for a
\* parameter id without per-id metadata has just failed.
C19_Witness ==
  /\ initialize_call.status = kOk
  /\ last_call = "AddMetadata"
  /\ status = kInvalidArgument
  /\ num_added = 1
  /\ \E type \in AllQueueTypes : typed_proto_metadata_[type] # <<>>

\* C20: a Generate* call made before Initialize has been called returns
\* FailedPrecondition.
C20_FailedPrecondition ==
  (~initialize_call.called /\ last_call \in GenerateCalls)
  => status = "FailedPrecondition"

\* C20 as amended: a Generate* call made before Initialize has been called
\* is not rejected; with no record queued for its type it returns OK,
\* appends no block and leaves the timing module as it was.
C20_NoOpBeforeInitialize ==
  [][(/\ ~initialize_call.called
      /\ last_call' \in GenerateCalls
      /\ typed_proto_metadata_[TypeOfCall(last_call')] = <<>>)
     => /\ status' = kOk
        /\ output_parameter_blocks' = output_parameter_blocks
        /\ global_timing_module' = global_timing_module
        /\ typed_proto_metadata_' = typed_proto_metadata_
    ]_vars

\* Each of the three Generate* calls was made before Initialize and returned OK.
C20_Witness ==
  /\ ~initialize_call.called
  /\ last_call \in GenerateCalls
  /\ status = kOk
  /\ unit_calls = GenerateCalls

\* C21: while Initialize has not been called, every Generate* call returns
\* OK, appends nothing to the output list and leaves the global timing
\* module as it was.
C21_AlwaysNoOpBeforeInitialize ==
  [][(~initialize_call.called /\ last_call' \in GenerateCalls)
     => /\ status' = kOk
        /\ output_parameter_blocks' = output_parameter_blocks
        /\ global_timing_module' = global_timing_module
    ]_vars


\* C22: after the timing module has rejected the claimed start of a record of
\* a parameter id, no later Generate* call emits a block of that parameter id.
C22_FatalAfterRejection ==
  [][last_call' \in GenerateCalls
     => \A i \in DOMAIN log' :
          log'[i].from.metadata.parameter_id \in rejected_ids
            => log'[i].status # kOk
    ]_vars

----------------------------------------------------------------------------
(* The FLAC encoder.                                                       *)

\* The ids of the frames finalized, in the order of the list, and of the
\* frames given to the EncodeAudioFrame calls that succeeded, in call order.
FinalizedIds ==
  [i \in DOMAIN finalized_audio_frames_ |-> finalized_audio_frames_[i].id]

EncodedIds ==
  LET ok_calls == SelectSeq(encode_calls, LAMBDA call : call.ok)
  IN [i \in DOMAIN ok_calls |-> ok_calls[i].id]

FinalizeFramesReturned ==
  last_call = "FinalizeFrames" /\ finalize_frames.pc = "idle"

\* C23: when FinalizeFrames has returned OK, the finalized list holds exactly
\* the frames of the successful EncodeAudioFrame calls, each once and in call
\* order, whatever the order and grouping of the write callbacks, and
\* frame_index_to_frame_ is empty.
C23_ChronologicalFinalization ==
  (FinalizeFramesReturned /\ status = kOk)
  => /\ FinalizedIds = EncodedIds
     /\ DOMAIN frame_index_to_frame_ = {}

\* FinalizeFrames returned OK with two frames or more finalized, after a
\* write callback of a later frame came before one of an earlier frame and a
\* frame was written in more than one call.
C23_Witness ==
  /\ FinalizeFramesReturned
  /\ status = kOk
  /\ Len(finalized_audio_frames_) >= 2
  /\ \E i, j \in DOMAIN write_calls :
       i < j /\ write_calls[i].current_frame > write_calls[j].current_frame
  /\ \E i \in DOMAIN write_calls :
       write_calls[i].samples < num_samples_per_frame_

\* The samples the write callbacks accumulated in a finalized frame, and the
\* frame index the callbacks wrote it under.
SamplesOf(audio_frame_with_data) ==
  SumSeq([i \in DOMAIN audio_frame_with_data.audio_frame_ |->
            audio_frame_with_data.audio_frame_[i].samples])

FrameIndicesOf(audio_frame_with_data) ==
  {audio_frame_with_data.audio_frame_[i].current_frame :
     i \in DOMAIN audio_frame_with_data.audio_frame_}

\* C29: a finalized frame has accumulated exactly num_samples_per_frame_
\* samples; frame k + 1 is never finalized before frame k; and FinalizeFrames
\* returns Unknown, leaving the remaining frames stored, exactly when frames
\* remain and the one with the next index is absent.
C29_FinalizeOnlyComplete ==
  /\ \A i \in DOMAIN finalized_audio_frames_ :
       /\ SamplesOf(finalized_audio_frames_[i]) = num_samples_per_frame_
       /\ \A k \in FrameIndicesOf(finalized_audio_frames_[i]) :
            k > 0 => \E j \in 1..(i - 1) :
                       k - 1 \in FrameIndicesOf(finalized_audio_frames_[j])
  /\ FinalizeFramesReturned =>
       IF DOMAIN frame_index_to_frame_ # {}
       THEN /\ status = kUnknown
            /\ finalize_frames.next_frame_index
                 \notin DOMAIN frame_index_to_frame_
            /\ \A k \in DOMAIN frame_index_to_frame_ :
                 \A i \in DOMAIN finalized_audio_frames_ :
                   frame_index_to_frame_[k].audio_frame_with_data.id
                     # finalized_audio_frames_[i].id
       ELSE status = kOk

\* FinalizeFrames returned Unknown with a frame left stored, after an earlier
\* call had finalized a frame that was written in more than one callback.
C29_Witness ==
  /\ FinalizeFramesReturned
  /\ status = kUnknown
  /\ DOMAIN frame_index_to_frame_ # {}
  /\ Len(finalized_audio_frames_) >= 1
  /\ \E i \in DOMAIN write_calls :
       write_calls[i].samples < num_samples_per_frame_

----------------------------------------------------------------------------
(* The demixed channels of a layer and their bit positions.                *)

\* C24: from accumulated surround count a to layer surround count s, the
\* surround labels found are D_R2 iff a = 1 and s >= 2, D_L3 and D_R3 iff
\* a < 3 <= s, D_Ls5 and D_Rs5 iff a < 5 <= s, D_L7, D_R7, D_Lrs7 and D_Rrs7
\* iff a < 7 <= s, each once; a transition that reaches a surround count
\* above 7 fails with InvalidArgument, and no other does.
C24_SurroundLabels ==
  find_demixed_channels_call.called =>
    LET a == find_demixed_channels_call.accumulated_channels.surround
        s == find_demixed_channels_call.layer_channels.surround
        labels == find_demixed_channels_call.demixed_channel_labels
        expected ==
          (IF a = 1 /\ s >= 2 THEN {"D_R2"} ELSE {})
            \cup (IF a < 3 /\ 3 <= s THEN {"D_L3", "D_R3"} ELSE {})
            \cup (IF a < 5 /\ 5 <= s THEN {"D_Ls5", "D_Rs5"} ELSE {})
            \cup (IF a < 7 /\ 7 <= s
                  THEN {"D_L7", "D_R7", "D_Lrs7", "D_Rrs7"} ELSE {})
        heights == {"D_Ltb4", "D_Rtb4", "D_Ltf2", "D_Rtf2"}
    IN
    IF a < s /\ s > 7
    THEN find_demixed_channels_call.status = kInvalidArgument
    ELSE /\ find_demixed_channels_call.status = kOk
         /\ Range(labels) \ heights = expected
         /\ \A i, j \in DOMAIN labels : labels[i] = labels[j] => i = j

\* FindDemixedChannels was called for stereo then 5.1 and found D_L3, D_R3,
\* D_Ls5 and D_Rs5.
C24_Witness ==
  /\ find_demixed_channels_call.called
  /\ find_demixed_channels_call.accumulated_channels.surround = 2
  /\ find_demixed_channels_call.layer_channels.surround = 5
  /\ find_demixed_channels_call.accumulated_channels.height = 0
  /\ find_demixed_channels_call.layer_channels.height = 0
  /\ Range(find_demixed_channels_call.demixed_channel_labels)
       = {"D_L3", "D_R3", "D_Ls5", "D_Rs5"}

\* C25: the height labels found are D_Ltb4 and D_Rtb4 exactly when the heights
\* go from 2 to 4, and D_Ltf2 and D_Rtf2 exactly when the heights go from 0 to
\* 2 while the surround count grows past 3; no other height label is found.
C25_HeightLabels ==
  find_demixed_channels_call.called =>
    LET accumulated == find_demixed_channels_call.accumulated_channels
        layer == find_demixed_channels_call.layer_channels
        found == Range(find_demixed_channels_call.demixed_channel_labels)
    IN
    found \cap {"D_Ltb4", "D_Rtb4", "D_Ltf2", "D_Rtf2", "D_Ltf4", "D_Rtf4"}
      = (IF accumulated.height = 2 /\ layer.height = 4
         THEN {"D_Ltb4", "D_Rtb4"} ELSE {})
          \cup (IF /\ accumulated.height = 0 /\ layer.height = 2
                   /\ accumulated.surround <= 3 /\ layer.surround > 3
                THEN {"D_Ltf2", "D_Rtf2"} ELSE {})

\* C25 as amended: in a transition that FindDemixedChannels accepts, the
\* height labels found are D_Ltb4 and D_Rtb4 exactly when the heights go from
\* 2 to 4, and D_Ltf2 and D_Rtf2 exactly when the heights stay at 2 while the
\* surround count grows from 3 to more than 3; no other height label is
\* found.
C25_HeightLabelsFromTwo ==
  (find_demixed_channels_call.called
     /\ find_demixed_channels_call.status = kOk) =>
    LET accumulated == find_demixed_channels_call.accumulated_channels
        layer == find_demixed_channels_call.layer_channels
        found == Range(find_demixed_channels_call.demixed_channel_labels)
    IN
    found \cap {"D_Ltb4", "D_Rtb4", "D_Ltf2", "D_Rtf2", "D_Ltf4", "D_Rtf4"}
      = (IF accumulated.height = 2 /\ layer.height = 4
         THEN {"D_Ltb4", "D_Rtb4"} ELSE {})
          \cup (IF /\ accumulated.height = 2 /\ layer.height = 2
                   /\ accumulated.surround = 3 /\ layer.surround > 3
                THEN {"D_Ltf2", "D_Rtf2"} ELSE {})

\* FindDemixedChannels was called for 3.1.2 then 5.1.2 and found D_Ltf2 and
\* D_Rtf2.
C25_Witness ==
  /\ find_demixed_channels_call.called
  /\ find_demixed_channels_call.status = kOk
  /\ find_demixed_channels_call.accumulated_channels
       = [surround |-> 3, height |-> 2, lfe |-> 1]
  /\ find_demixed_channels_call.layer_channels
       = [surround |-> 5, height |-> 2, lfe |-> 1]
  /\ {"D_Ltf2", "D_Rtf2"}
       \subseteq Range(find_demixed_channels_call.demixed_channel_labels)

----------------------------------------------------------------------------
(* The queues by parameter definition type.                                *)

\* C27: a successful AddMetadata appends its record to exactly one queue, the
\* one of the definition type of the record's parameter, and leaves the other
\* queues unchanged; a Generate* call visits only records of the queue of its
\* own type, appends only blocks of parameters of that type, made from those
\* records, and leaves the other queues unchanged.
C27_TypedQueues ==
  [][/\ (last_call' = "AddMetadata" /\ status' = kOk)
        => \E type \in AllQueueTypes :
             /\ Len(typed_proto_metadata_'[type])
                  = Len(typed_proto_metadata_[type]) + 1
             /\ SubSeq(typed_proto_metadata_'[type], 1,
                       Len(typed_proto_metadata_[type]))
                  = typed_proto_metadata_[type]
             /\ parameter_id_to_metadata_[
                  typed_proto_metadata_'[type][
                    Len(typed_proto_metadata_'[type])].metadata.parameter_id]
                  .param_definition_type = type
             /\ \A other \in AllQueueTypes \ {type} :
                  typed_proto_metadata_'[other] = typed_proto_metadata_[other]
     /\ last_call' \in GenerateCalls
        => /\ \A other \in AllQueueTypes \ {TypeOfCall(last_call')} :
                typed_proto_metadata_'[other] = typed_proto_metadata_[other]
           /\ \A i \in DOMAIN log' :
                log'[i].from
                  \in Range(typed_proto_metadata_[TypeOfCall(last_call')])
           /\ Len(output_parameter_blocks') >= Len(output_parameter_blocks)
           /\ SubSeq(output_parameter_blocks', 1,
                     Len(output_parameter_blocks))
                = output_parameter_blocks
           /\ \A i \in (Len(output_parameter_blocks) + 1)
                         ..Len(output_parameter_blocks') :
                /\ parameter_id_to_metadata_[
                     output_parameter_blocks'[i].obu.parameter_id]
                     .param_definition_type = TypeOfCall(last_call')
                /\ output_parameter_blocks'[i].from
                     \in Range(typed_proto_metadata_[TypeOfCall(last_call')])
    ]_vars

\* GenerateMixGain has just emitted a mix-gain block while a demixing record
\* waits in its own queue.
C27_Witness ==
  /\ last_call = "GenerateMixGain"
  /\ status = kOk
  /\ Len(log) >= 1
  /\ output_parameter_blocks # <<>>
  /\ typed_proto_metadata_[kParameterDefinitionMixGain] = <<>>
  /\ typed_proto_metadata_[kParameterDefinitionDemixing] # <<>>

----------------------------------------------------------------------------
(* Recon gains the user declares and the layers' flags.                    *)

\* C28: a recon-gain record in which the user declares a gain outside
\* [0, 255] makes generation fail: no GenerateReconGain call returns OK for
\* it, and no block is made from it with the value cut to 8 bits.
C28_OutOfRangeRejected ==
  \A i \in ReconGainEntries :
    (\E l \in DOMAIN UserLayersOf(log[i]) :
       \E bit_position \in DOMAIN UserLayersOf(log[i])[l].recon_gain :
         UserLayersOf(log[i])[l].recon_gain[bit_position] \notin 0..255)
      => log[i].status # kOk

\* C30: without the override, a recon-gain record whose audio element flags
\* some layer as having recon gains although the transition into it yields
\* no demixed label (layer 0 always), or as having none although the
\* transition yields one, fails with InvalidArgument; so a record is
\* generated only if the flags are those of the transitions.
C30_PresenceMatchesLabels ==
  ~override_computed_recon_gains_ =>
    \A i \in ReconGainEntries :
      LET e == log[i]
          channels == PerIdMetadataOf(e).channel_numbers_for_layers
          flags == PerIdMetadataOf(e).recon_gain_is_present_flags
          YieldsLabels(l) ==
            /\ l > 1
            /\ FindDemixedChannels(channels[l - 1], channels[l])
                 .demixed_channel_labels # <<>>
      IN
      /\ (\E l \in DOMAIN flags : flags[l] # YieldsLabels(l))
           => e.status = kInvalidArgument
      /\ e.status = kOk
           => /\ ~flags[1]
              /\ \A l \in DOMAIN flags : flags[l] <=> YieldsLabels(l)

\* Without the override, a record of an audio element whose layer 0 is
\* flagged as having recon gains was visited by GenerateReconGain and failed,
\* what the user declared being what the frames give.
C30_Witness ==
  /\ ~override_computed_recon_gains_
  /\ \E i \in ReconGainEntries :
       LET e == log[i] IN
       /\ e.status = kInvalidArgument
       /\ PerIdMetadataOf(e).recon_gain_is_present_flags = <<TRUE, TRUE>>
       /\ UserLayersOf(e)[1].recon_gain = <<>>
       /\ UserLayersOf(e)[2].recon_gain = ReconGainsOf(127, 127)
       /\ e.frames.recon_gain["D_L3"] = Ratio(1, 2)
       /\ e.frames.recon_gain["D_Ls5"] = Ratio(1, 2)

----------------------------------------------------------------------------
(* Failed records, declared bit positions and layer records.               *)

\* C31: a record for which a Generate* call returns an error consumes no
\* time: the next expected start of its parameter in the global timing
\* module is after the record what it was before it.
C31_FailedRecordKeepsTiming ==
  \A i \in DOMAIN log :
    log[i].status # kOk => log[i].next_start = log[i].expected_start

\* C32: every bit_position with which GenerateReconGainSubblock indexes the
\* 12 entries of the user array and of the output array, and shifts the
\* flag, is in 0..11, and a record that declares a bit_position of 12 or
\* more is rejected with an error.
C32_BitPositionsInRange ==
  recon_gain_subblock_call.called =>
    /\ recon_gain_subblock_call.bit_positions \subseteq 0..11
    /\ (\E l \in DOMAIN recon_gain_subblock_call.metadata
                          .recon_gains_for_layer :
          \E bit_position \in
               DOMAIN recon_gain_subblock_call.metadata
                        .recon_gains_for_layer[l].recon_gain :
            bit_position >= 12)
         => recon_gain_subblock_call.status = kInvalidArgument

\* C33: GenerateReconGainSubblock reads user_recon_gains_layers only at
\* indices at which the user's record has a layer record, also when the
\* audio element has one layer and the user gave no layer record.
C33_LayerRecordsExist ==
  recon_gain_subblock_call.called =>
    \A layer_index \in recon_gain_subblock_call.layers_read :
      layer_index + 1
        \in DOMAIN recon_gain_subblock_call.metadata.recon_gains_for_layer

----------------------------------------------------------------------------
(* Initialize: exceptions, the shared map after a failure.                 *)

\* C34: Initialize reports every failure as a returned status and raises no
\* exception; with a recon-gain definition that refers to an audio element
\* whose config_ is not a ScalableChannelLayoutConfig it returns an error
\* status.
C34_NoException ==
  initialize_call.called =>
    /\ initialize_call.status \in {kOk, kInvalidArgument, kUnknown}
    /\ (/\ initialize_call.has_ia_sequence_header
        /\ \E parameter_id \in DOMAIN initialize_call.param_definitions :
             LET param_definition ==
                   initialize_call.param_definitions[parameter_id]
             IN /\ param_definition.type = kParameterDefinitionReconGain
                /\ param_definition.audio_element_id_
                     \in DOMAIN initialize_call.audio_elements
                /\ initialize_call.audio_elements[
                     param_definition.audio_element_id_].config_
                     # "ScalableChannelLayoutConfig")
         => initialize_call.status \in {kInvalidArgument, kUnknown}

\* C36: when Initialize returns an error, the shared map holds no entry for
\* a parameter id whose metadata could not be built, so that AddMetadata
\* fails for it; and no Initialize call changes an entry the map already
\* had.
C36_NoEntryAfterFailure ==
  [][last_call' = "Initialize"
       => /\ status' \in {kInvalidArgument, kUnknown}
             => \A parameter_id \in DOMAIN initialize_call'.param_definitions
                                      \ DOMAIN parameter_id_to_metadata_ :
                  GetPerIdMetadata(parameter_id,
                                   initialize_call'.audio_elements,
                                   initialize_call'.param_definitions,
                                   DefaultPerIdParameterMetadata).status # kOk
                    => parameter_id \notin DOMAIN parameter_id_to_metadata_'
          /\ \A parameter_id \in DOMAIN parameter_id_to_metadata_ :
               /\ parameter_id \in DOMAIN parameter_id_to_metadata_'
               /\ parameter_id_to_metadata_'[parameter_id]
                    = parameter_id_to_metadata_[parameter_id]
    ]_vars

----------------------------------------------------------------------------
(* The computed recon gains and the order of the labels.                   *)

\* C35: the flag and the values ComputeReconGains computes for a layer are a
\* function of the transition and of the gains of the labels: no two demixed
\* labels of a transition have the same bit position, and a repeated call
\* with the same arguments computes the same flag and values whatever the
\* order in which label_to_recon_gain is iterated.
C35_OrderIndependent ==
  [][(compute_recon_gains_call'.called
        => \A label, other \in
                Range(FindDemixedChannels(
                        compute_recon_gains_call'.accumulated_channels,
                        compute_recon_gains_call'.layer_channels)
                        .demixed_channel_labels) :
             ReconGainBitPosition(label) = ReconGainBitPosition(other)
               => label = other)
     /\ ((compute_recon_gains_call.called
            /\ compute_recon_gains_call'.called)
           => /\ compute_recon_gains_call'.status
                   = compute_recon_gains_call.status
              /\ compute_recon_gains_call'.computed_recon_gain_flag
                   = compute_recon_gains_call.computed_recon_gain_flag
              /\ compute_recon_gains_call'.computed_recon_gains
                   = compute_recon_gains_call.computed_recon_gains)
    ]_vars

----------------------------------------------------------------------------
(* The order of GenerateDemixing and GenerateMixGain.                      *)

\* C37: GenerateDemixing and GenerateMixGain commute. When one of them has
\* just succeeded and the other succeeds after it, then the other succeeds
\* from the state before as well, the first succeeds after it, and both
\* orders end with the same blocks with the same timestamps in the output
\* list, the same timing module and both queues empty; only the order of the
\* blocks in the list differs.
C37_Commute ==
  [][(last_call' \in {"GenerateDemixing", "GenerateMixGain"} /\ status' = kOk)
       => LET first == TypeOfCall(last_call')
              second == IF first = kParameterDefinitionDemixing
                        THEN kParameterDefinitionMixGain
                        ELSE kParameterDefinitionDemixing
              Run(queue, timing, output) ==
                GenerateParameterBlocksLoop(
                  queue, timing, output, <<>>,
                  [metadata_map |-> parameter_id_to_metadata_,
                   override_computed_recon_gains |->
                     override_computed_recon_gains_,
                   frames |-> NoFrames])
              \* the second call after the first, which this step took
              after == Run(typed_proto_metadata_'[second],
                           global_timing_module', output_parameter_blocks')
              \* the other order, from the state before this step
              swapped == Run(typed_proto_metadata_[second],
                             global_timing_module, output_parameter_blocks)
              swapped_after == Run(typed_proto_metadata_[first],
                                   swapped.timing, swapped.output)
          IN after.status = kOk
               => /\ swapped.status = kOk
                  /\ swapped_after.status = kOk
                  /\ swapped_after.timing = after.timing
                  /\ Len(swapped_after.output) = Len(after.output)
                  /\ Range(swapped_after.output) = Range(after.output)
                  /\ typed_proto_metadata_'[first] = <<>>
    ]_vars

\* In one temporal unit GenerateDemixing and then GenerateMixGain succeeded
\* and each emitted a block.
C37_Witness ==
  /\ last_call = "GenerateMixGain"
  /\ status = kOk
  /\ unit_calls = {"GenerateDemixing", "GenerateMixGain"}
  /\ Len(output_parameter_blocks) = 2
  /\ parameter_id_to_metadata_[output_parameter_blocks[1].obu.parameter_id]
       .param_definition_type = kParameterDefinitionDemixing
  /\ parameter_id_to_metadata_[output_parameter_blocks[2].obu.parameter_id]
       .param_definition_type = kParameterDefinitionMixGain
  /\ output_parameter_blocks[1].from.uid = 2

----------------------------------------------------------------------------
(* The write callback and the registration of the frame.                   *)

\* C39: no encoded data is lost to the order of callback and registration.
\* Every write callback carrying samples for a frame index smaller than the
\* number of EncodeAudioFrame calls started so far, the one still inside
\* libflac included, finds the frame stored, appends its bytes and its
\* sample count to it and returns OK.
C39_CallbackFindsFrame ==
  [][Len(write_calls') > Len(write_calls)
     => LET call == write_calls'[Len(write_calls')]
            k == call.current_frame
        IN k < Len(encode_calls')
             => /\ ~flac_library'.failed
                /\ k \in DOMAIN frame_index_to_frame_'
                /\ LET audio_frame_ ==
                         frame_index_to_frame_'[k].audio_frame_with_data
                           .audio_frame_
                   IN /\ audio_frame_ # <<>>
                      /\ audio_frame_[Len(audio_frame_)] = call
                /\ SumSeq([i \in DOMAIN frame_index_to_frame_'[k]
                                        .audio_frame_with_data.audio_frame_ |->
                             frame_index_to_frame_'[k].audio_frame_with_data
                               .audio_frame_[i].samples])
                     = frame_index_to_frame_'[k].num_samples
    ]_vars

----------------------------------------------------------------------------
(* The return of FinalizeAndFlush.                                         *)

\* C38: FinalizeAndFlush eventually returns. Once FLAC__stream_encoder_finish
\* has succeeded, whatever EncodeAudioFrame calls and callbacks came before,
\* the wait for the STREAMINFO metadata and the poll loop of FinalizeFrames
\* end and the method returns, OK or with an error.
C38_FinalizeAndFlushReturns ==
  (finalize_and_flush = "waiting") ~> (finalize_and_flush = "returned")

====
